---- MODULE Spec2Model ----
(***************************************************************************)
(* State-machine model of the openpond overlay node:                       *)
(*   - P2PNetwork (src/src/proto/p2p.proto, the TypeScript class that      *)
(*     starts at line 319): pubsub listener, handleAgentMessage,           *)
(*     verifyMessage, the directory tables, start()/stop() and the         *)
(*     periodic timers;                                                    *)
(*   - P2PGrpcService (src/unnamed/part_002): Connect, forwardToStream,    *)
(*     setupEventListeners, Stop, ListAgents.                              *)
(* Three specifications share the variables:                               *)
(*   Spec      inbound messages and the Local API streams of a running node*)
(*   DirSpec   the directory tables of a running node                      *)
(*   LifeSpec  start(), the periodic timers and stop() (LifeFairSpec adds  *)
(*             weak fairness of the node's own steps)                      *)
(***************************************************************************)
EXTENDS Integers, Sequences, FiniteSets, TLC

VARIABLES
    \* ---- P2PNetwork: inbound application messages -------------------
    handlers,          \* one entry per pubsub event on agent-messages, in
                       \* delivery order: [msg, pc] of its async listener
    emitted,           \* the 'message' events emitted, in emission order
    messagesReceived,  \* metrics.messagesReceived
    \* ---- P2PGrpcService ---------------------------------------------
    network,           \* service.network # null
    activeStream,      \* service.activeStream (0 = null)
    listeners,         \* listeners registered on the network for 'message'
                       \* (0 = the constructor's handler, s = bound to call s)
    streamState,       \* per call: "unopened" | "open" | "closed"
    streamLog,         \* per call: the events passed to call.write
    \* ---- P2PNetwork: directory --------------------------------------
    knownPeerToEthMap, \* peer id -> account address (NoAddr = no entry)
    knownAgentNames,   \* account -> display name (NoName = no entry)
    peerOrder,         \* the keys of knownPeerToEthMap in insertion order
                       \* (the iteration order of a Map)
    verifiedSignals,   \* observer: <<peerId, account>> pairs for which a
                       \* DHT completion or a signed announcement was seen
    \* ---- P2PNetwork: sendMessage ------------------------------------
    useEncryption,     \* this.useEncryption
    sending,           \* the sendMessage call in progress: [pc, to, content,
                       \* target, stream]
    published,         \* the envelopes published on agent-messages
    messagesSent,      \* metrics.messagesSent
    sendResult,        \* how the last sendMessage call ended
    dhtQueries,        \* findProviders queries issued so far
    sendCalls,         \* sendMessage calls made so far
    dialResult,        \* how the direct connection attempt of the call went
    \* ---- a network of nodes, each running P2PNetwork ----------------
    netUseEncryption,  \* per node: this.useEncryption
    netPayload,        \* the text the nodes send each other
    netSent,           \* the envelopes published on agent-messages, in order
    netReturned,       \* the messageIds sendMessage returned, in order
    netHandled,        \* <<k, n>>: the listener of node n has handled the
                       \* k-th envelope
    netEmitted,        \* per node: the 'message' events it emitted
    \* ---- role and name of the node ----------------------------------
    agentName,         \* this.agentName (config.name)
    configRole,        \* config.role of initNode
    bootstrapMode,     \* this.bootstrapMode
    options,           \* the options start() hands to createLibp2p
    connections,       \* this.node.getConnections().length
    \* ---- the node process and the registry ---------------------------
    entry,             \* the entry point that runs the node: initNode or main
    chainRegistered,   \* the registry's isRegistered(account.address)
    reg,               \* position of registerWithContract
    regResult,         \* how registerWithContract ended
    registerTxs,       \* registerAgent transactions sent
    envFault,          \* what the environment of the process lacks
    exitCode,          \* the code the process exited with (-1 = running)
    \* ---- node status --------------------------------------------------
    nodeStatuses,      \* this.nodeStatuses: account -> stored report
    now,               \* Date.now(), in ms
    statusResult,      \* what the last getNetworkStatus() returned
    statusPurged,      \* the keys the last getNetworkStatus() deleted
    statusSeen,        \* per report: when the node-status topic last
                       \* delivered it to this node
    \* ---- P2PGrpcService: unary calls --------------------------------
    apiStop,           \* the Stop call: "idle", or "stopping" at its await
    stopCalls,         \* calls of network.stop() made by Stop
    apiReplies,        \* what the callbacks of the unary calls were given
    \* ---- P2PNetwork: lifecycle --------------------------------------
    pc,                \* position of start(): see LifeSpec
    isBootstrapName,   \* agentName.startsWith("bootstrap-")
    reachable,         \* bootstrap peers whose dial can succeed
    peers,             \* node.getPeers()
    addrIdx,           \* startDiscovery: index of the address being dialed
    attempt,           \* startDiscovery: attempt counter of the loop
    timers,            \* intervals installed with setInterval and not cleared
    updateInterval,    \* this.updateInterval (FALSE = null)
    stopped,           \* stop() has returned
    periodicRuns,      \* periodic task executions so far
    dials,             \* per bootstrap peer: the node.dial calls start() made
                       \* for it, and how many of them without a time limit
    sincePublish,      \* ms since the node last published its binding (-1: never)
    sinceTick          \* per interval: ms since it was set or last ran

msgVars  == <<handlers, emitted, messagesReceived, network, activeStream,
              listeners, streamState, streamLog>>
dirVars  == <<knownPeerToEthMap, knownAgentNames, peerOrder, verifiedSignals>>
sendVars == <<useEncryption, sending, published, messagesSent, sendResult,
              dhtQueries, sendCalls, dialResult>>
netVars  == <<netUseEncryption, netPayload, netSent, netReturned, netHandled,
              netEmitted>>
roleVars == <<agentName, configRole, bootstrapMode, options, connections>>
regVars  == <<entry, chainRegistered, reg, regResult, registerTxs, envFault,
              exitCode>>
statusVars == <<nodeStatuses, now, statusResult, statusPurged, statusSeen>>
apiVars  == <<apiStop, stopCalls, apiReplies>>
otherVars == <<netVars, roleVars, regVars, statusVars, apiVars>>
extVars  == <<sendVars, otherVars>>
lifeVars == <<pc, isBootstrapName, reachable, peers, addrIdx, attempt,
              timers, updateInterval, stopped, periodicRuns, dials,
              sincePublish, sinceTick>>
vars     == <<msgVars, dirVars, lifeVars, extVars>>

(***************************************************************************)
(* Bounds of the model.                                                    *)
(***************************************************************************)
MaxMsgs     == 2   \* pubsub events on agent-messages
MaxStreams  == 2   \* Connect calls
MaxRequests == 2   \* ConnectRequest messages answered
MaxRuns     == 3   \* periodic task executions
MaxSends    == 2   \* sendMessage calls
MaxCalls    == 3   \* unary calls of the Local API answered

(***************************************************************************)
(* Account addresses.  An address is an account in a letter case: the      *)
(* checksummed form (this.account.address) or the lowercase form.          *)
(***************************************************************************)
Accounts == {"self", "alice", "bob"}
Forms    == {"checksum", "lower"}
Address  == [acct : Accounts, form : Forms]
NoAddr   == [acct |-> "none", form |-> "lower"]

Addr(a, f) == [acct |-> a, form |-> f]

\* an address left in the letter case it has
KeepCase(a) == a

\* the intervals start() installs: broadcastStatus, announcePresence,
\* publishToDHT (startDHTMaintenance), the DHT status check of bootstrap mode
TimerNames == {"status", "announce", "maintenance", "dhtCheck"}

\* a node that has not published its binding and has set no interval
NoPublication ==
    /\ sincePublish = -1
    /\ sinceTick = [t \in TimerNames |-> 0]

\* String.prototype.toLowerCase on an address
ToLowerCase(a) == [a EXCEPT !.form = "lower"]

\* this.account.address: viem's privateKeyToAccount returns the checksummed form
accountAddress == Addr("self", "checksum")


(***************************************************************************)
(* Identity and crypto (viem signMessage / verifyMessage, eciesjs).        *)
(* A signature is the signer together with the bytes it was made over:     *)
(* recovering with other bytes yields an address of no account.            *)
(***************************************************************************)
\* A string is a sequence of UTF-16 code units; "U+D800" is a high surrogate
\* with no low surrogate after it, "U+FFFD" the replacement character.  A
\* byte string is a sequence of UTF-8 sequences, each written in hex.
Hi       == <<"h", "i">>
Unpaired == <<"h", "U+D800">>
Payloads == {Hi, Unpaired}

\* TextEncoder: a surrogate without its pair is encoded as U+FFFD
EncodeUnit(u) == CASE u = "h" -> "68"
                   [] u = "i" -> "69"
                   [] u = "U+D800" -> "EFBFBD"
                   [] u = "U+FFFD" -> "EFBFBD"
DecodeUnit(b) == CASE b = "68" -> "h"
                   [] b = "69" -> "i"
                   [] b = "EFBFBD" -> "U+FFFD"
\* new TextEncoder().encode(content)
TextEncode(str) == [k \in 1..Len(str) |-> EncodeUnit(str[k])]
\* new TextDecoder().decode(bytes)
TextDecode(bytes) == [k \in 1..Len(bytes) |-> DecodeUnit(bytes[k])]

PlainContent(t) == [enc |-> FALSE, key |-> "none", text |-> t]
\* encrypt(recipientPublicKey, contentBytes)
Encrypt(k, t)   == [enc |-> TRUE, key |-> k, text |-> t]
\* decrypt(privateKey, contentBytes) throws unless made for that key
CanDecryptAs(acct, c) == c.enc /\ c.key = acct
CanDecrypt(c)   == CanDecryptAs("self", c)
\* new TextDecoder().decode(new Uint8Array(decrypted))
Decrypt(c)      == TextDecode(c.text)
\* new TextDecoder().decode(contentBytes): ciphertext decodes to noise
Utf8Decode(c)   == IF c.enc THEN <<"U+FFFD">> ELSE TextDecode(c.text)

\* const { signature, ...rest } = message
Rest(m) == [messageId   |-> m.messageId,
            fromAgentId |-> m.fromAgentId,
            toAgentId   |-> m.toAgentId,
            content     |-> m.content]

WithSignature(b, s) == [messageId   |-> b.messageId,
                        fromAgentId |-> b.fromAgentId,
                        toAgentId   |-> b.toAgentId,
                        content     |-> b.content,
                        signature   |-> s]

\* walletClient.signMessage({ message: JSON.stringify(message) })
signMessage(signer, body) == [signer |-> signer, body |-> body]

\* the address ECDSA recovery yields for a signature and the signed bytes
RecoverAddress(sig, body) ==
    IF sig.body = body THEN Addr(sig.signer, "checksum") ELSE NoAddr

\* a verification that never looks at the signed bytes
verifyMessageSignerOnly(m) ==
    ToLowerCase(Addr(m.signature.signer, "checksum")) = ToLowerCase(m.fromAgentId)

\* publicClient.verifyMessage({ address: fromAgentId, message:
\* JSON.stringify(rest), signature }): addresses compare case-insensitively
verifyMessage(m) ==
    ToLowerCase(RecoverAddress(m.signature, Rest(m))) = ToLowerCase(m.fromAgentId)

\* a recipient check that accepts every message
isForMeAlways(m) == TRUE

\* a recipient check that accepts every message, on any node
isForMeAtAlways(acct, m) == TRUE

\* message.toAgentId.toLowerCase() === this.account.address.toLowerCase(),
\* on the node of the account
isForMeAt(acct, m) == ToLowerCase(m.toAgentId) = ToLowerCase(Addr(acct, "checksum"))

\* message.toAgentId.toLowerCase() === this.account.address.toLowerCase()
isForMe(m) == ToLowerCase(m.toAgentId) = ToLowerCase(accountAddress)

\* a handler without the check of the recipient field
hasNoRecipientUnchecked(m) == FALSE

\* !message.toAgentId
hasNoRecipient(m) == m.toAgentId = NoAddr

(***************************************************************************)
(* The payloads the gossip mesh can hand to the node on agent-messages.    *)
(***************************************************************************)
Alice == Addr("alice", "checksum")
\* recipient and content of the messages a remote sender publishes: for this
\* node in either letter case, plain or encrypted; for another account; for
\* nobody
Addressed == {<<Addr("self", "checksum"), PlainContent(TextEncode(Hi))>>,
              <<Addr("self", "lower"), Encrypt("self", TextEncode(Hi))>>,
              <<Addr("bob", "checksum"), Encrypt("bob", TextEncode(Hi))>>,
              <<NoAddr, PlainContent(TextEncode(Hi))>>}

Body(id, f, t, c) ==
    [messageId |-> id, fromAgentId |-> f, toAgentId |-> t, content |-> c]

\* what sendMessage of the account in fromAgentId publishes
HonestMessages(id) ==
    { WithSignature(Body(id, Alice, a[1], a[2]),
                    signMessage("alice", Body(id, Alice, a[1], a[2]))) :
        a \in Addressed }

\* a message addressed to this node with one field altered after signing, or
\* signed by an account other than fromAgentId
ForgedMessages(id) ==
    { WithSignature(Body(id, Alice, accountAddress, c),
                    signMessage("alice", Body(id, Alice, accountAddress,
                                              [c EXCEPT !.text = TextEncode(<<"i">>)]))) :
        c \in {PlainContent(TextEncode(Hi))} }
    \cup
    { WithSignature(Body(id, Alice, accountAddress, c),
                    signMessage("bob", Body(id, Alice, accountAddress, c))) :
        c \in {PlainContent(TextEncode(Hi))} }

\* the node's own message to bob, echoed back by emitSelf
EchoedMessages(id) ==
    { WithSignature(Body(id, accountAddress, Addr("bob", "checksum"), c),
                    signMessage("self", Body(id, accountAddress,
                                             Addr("bob", "checksum"), c))) :
        c \in {PlainContent(TextEncode(Hi))} }

WireMessages(id) == HonestMessages(id) \cup ForgedMessages(id) \cup EchoedMessages(id)

NoMsg == [messageId |-> 0]

(***************************************************************************)
(* P2PGrpcService: events and the stream writes.                           *)
(***************************************************************************)
StreamIds == 1..MaxStreams

ReadyEvent      == [type |-> "ready",   ref |-> 0]
ErrorEvent      == [type |-> "error",   ref |-> 0]   \* code CONNECT_FAILED
MessageEvent(i) == [type |-> "message", ref |-> i]

\* !call.destroyed && call.writable
Writable(s) == streamState[s] = "open"

\* a forward that skips the destroyed/writable test
forwardToStreamUnchecked(logs, e) ==
    IF activeStream # 0 THEN [logs EXCEPT ![activeStream] = Append(@, e)] ELSE logs

\* forwardToStream(event)
forwardToStream(logs, e) ==
    IF activeStream # 0 /\ Writable(activeStream)
    THEN [logs EXCEPT ![activeStream] = Append(@, e)]
    ELSE logs

\* the handler forwardEvent(...) returns, bound to one call
forwardEvent(logs, call, e) ==
    IF Writable(call) THEN [logs EXCEPT ![call] = Append(@, e)] ELSE logs

\* one listener of the network's 'message' event
InvokeListener(l, logs, e) ==
    IF l = 0 THEN forwardToStream(logs, e) ELSE forwardEvent(logs, l, e)

\* EventEmitter.emit: the listeners run synchronously, in registration order
RECURSIVE EmitToListeners(_, _, _)
EmitToListeners(ls, logs, e) ==
    IF ls = <<>> THEN logs
    ELSE EmitToListeners(Tail(ls), InvokeListener(Head(ls), logs, e), e)

\* a setupEventListeners that registers without removing
setupEventListenersKeeping(ls, call) == Append(ls, call)

\* setupEventListeners(call): every handler in activeHandlers is removed from
\* the network, then the handlers bound to call are registered
setupEventListeners(ls, call) == <<call>>

(***************************************************************************)
(* P2PNetwork.stop(): clearInterval(this.updateInterval) if it is set,     *)
(* then node.stop().  No other interval is cleared.                        *)
(***************************************************************************)
stop ==
    /\ timers' = IF updateInterval THEN timers \ {"update"} ELSE timers
    /\ stopped' = TRUE
    /\ UNCHANGED <<pc, isBootstrapName, reachable, peers, addrIdx, attempt,
                   updateInterval, periodicRuns, dials, sincePublish, sinceTick>>

(***************************************************************************)
(* Actions of Spec.                                                        *)
(***************************************************************************)
\* the pubsub 'message' listener, topic agent-messages, up to the first await
\* of handleAgentMessage (await this.verifyMessage(message))
PubsubDeliver(m) ==
    /\ ~stopped
    /\ Len(handlers) < MaxMsgs
    /\ handlers' = Append(handlers, [msg |-> m, pc |-> "verifying"])
    /\ UNCHANGED <<emitted, messagesReceived, network, activeStream, listeners,
                   streamState, streamLog>>
    /\ UNCHANGED <<dirVars, lifeVars, extVars>>

\* the payloads the listener cannot process, by topic: the bytes are not
\* JSON, the wrapper has no 'message', verifyMessage throws (a signature or
\* address that is no hex string), the processing throws (an agentId that is
\* no string, a message without content.encrypted)
Topics == {"agent-announcements", "agent-messages"}
BadPayloads(topic) ==
    {"invalidJSON", "noMessage", "processingThrows"}
       \cup (IF topic = "agent-messages" THEN {"verifyThrows"} ELSE {})
BadKinds == BadPayloads("agent-messages")

\* a listener that counts a payload it could not process
PubsubDeliverBadCounted(topic, kind) ==
    /\ ~stopped
    /\ Len(handlers) < MaxMsgs
    /\ kind \in BadPayloads(topic)
    /\ handlers' = Append(handlers, [msg |-> NoMsg, pc |-> kind, topic |-> topic])
    /\ messagesReceived' = messagesReceived + 1
    /\ UNCHANGED <<emitted, network, activeStream, listeners,
                   streamState, streamLog>>
    /\ UNCHANGED <<dirVars, lifeVars, extVars>>

\* the pubsub 'message' listener on a payload it cannot process: the throw
\* is caught and logged by the listener (or by handleAgentMessage's own
\* try/catch), a wrapper without 'message' is skipped
PubsubDeliverBad(topic, kind) ==
    /\ ~stopped
    /\ Len(handlers) < MaxMsgs
    /\ kind \in BadPayloads(topic)
    /\ handlers' = Append(handlers, [msg |-> NoMsg, pc |-> kind, topic |-> topic])
    /\ UNCHANGED <<emitted, messagesReceived, network, activeStream, listeners,
                   streamState, streamLog>>
    /\ UNCHANGED <<dirVars, lifeVars, extVars>>

\* this.emit("message", decryptedMessage); this.metrics.messagesReceived++
EmitMessage(i, text) ==
    /\ emitted' = Append(emitted, [id |-> i, content |-> text])
    /\ streamLog' = EmitToListeners(listeners, streamLog, MessageEvent(i))
    /\ messagesReceived' = messagesReceived + 1
    /\ handlers' = [handlers EXCEPT ![i].pc = "emitted"]

DropMessage(i, why) ==
    /\ handlers' = [handlers EXCEPT ![i] = [msg |-> NoMsg, pc |-> why]]
    /\ UNCHANGED <<emitted, messagesReceived, streamLog>>

\* handleAgentMessage from the return of verifyMessage to the next await
\* (await decrypt(...)) or to its end
VerifyDone(i) ==
    /\ i \in 1..Len(handlers)
    /\ handlers[i].pc = "verifying"
    /\ LET m == handlers[i].msg IN
       IF ~verifyMessage(m) THEN DropMessage(i, "invalidSignature")
       ELSE IF hasNoRecipient(m) THEN DropMessage(i, "noRecipient")
       ELSE IF ~isForMe(m) THEN DropMessage(i, "notForMe")
       ELSE IF CanDecrypt(m.content)
            THEN /\ handlers' = [handlers EXCEPT ![i].pc = "decrypting"]
                 /\ UNCHANGED <<emitted, messagesReceived, streamLog>>
            \* decrypt threw: the bytes are decoded as UTF-8
            ELSE EmitMessage(i, Utf8Decode(m.content))
    /\ UNCHANGED <<network, activeStream, listeners, streamState>>
    /\ UNCHANGED <<dirVars, lifeVars, extVars>>

\* handleAgentMessage after await decrypt(...) returned the plaintext
DecryptDone(i) ==
    /\ i \in 1..Len(handlers)
    /\ handlers[i].pc = "decrypting"
    /\ EmitMessage(i, Decrypt(handlers[i].msg.content))
    /\ UNCHANGED <<network, activeStream, listeners, streamState>>
    /\ UNCHANGED <<dirVars, lifeVars, extVars>>

\* Connect(call): this.activeStream = call; call.on("data", ...)
Connect(s) ==
    /\ streamState[s] = "unopened"
    /\ \A r \in StreamIds : r < s => streamState[r] # "unopened"
    /\ streamState' = [streamState EXCEPT ![s] = "open"]
    /\ activeStream' = s
    /\ UNCHANGED <<handlers, emitted, messagesReceived, network, listeners,
                   streamLog>>
    /\ UNCHANGED <<dirVars, lifeVars, extVars>>

\* the ConnectRequest messages answered so far, on all streams
ConnectReplies ==
    Cardinality({sk \in StreamIds \X (1..(MaxMsgs + MaxRequests)) :
                    /\ sk[2] <= Len(streamLog[sk[1]])
                    /\ streamLog[sk[1]][sk[2]].type \in {"ready", "error"}})

\* the call's "data" handler: one ConnectRequest read from the stream
ConnectRequest(s) ==
    /\ streamState[s] = "open"
    /\ ConnectReplies < MaxRequests
    /\ IF ~network
       THEN \* throw new Error("P2P network not initialized")
            /\ streamLog' = forwardEvent(streamLog, s, ErrorEvent)
            /\ UNCHANGED listeners
       ELSE /\ listeners' = setupEventListeners(listeners, s)
            /\ streamLog' = forwardEvent(streamLog, s, ReadyEvent)
    /\ UNCHANGED <<handlers, emitted, messagesReceived, network, activeStream,
                   streamState>>
    /\ UNCHANGED <<dirVars, lifeVars, extVars>>

\* the client cancels or disconnects: call.destroyed, not writable
StreamClose(s) ==
    /\ streamState[s] = "open"
    /\ streamState' = [streamState EXCEPT ![s] = "closed"]
    /\ UNCHANGED <<handlers, emitted, messagesReceived, network, activeStream,
                   listeners, streamLog>>
    /\ UNCHANGED <<dirVars, lifeVars, extVars>>

\* Stop(call, callback): await this.network.stop(); this.network = null
GrpcStop ==
    /\ network
    /\ stop
    /\ network' = FALSE
    /\ UNCHANGED <<handlers, emitted, messagesReceived, activeStream, listeners,
                   streamState, streamLog>>
    /\ UNCHANGED <<dirVars, extVars>>

(***************************************************************************)
(* Initial states.                                                         *)
(***************************************************************************)
\* new P2PGrpcService(network) on a started network, no client yet
MsgInit ==
    /\ handlers = <<>>
    /\ emitted = <<>>
    /\ messagesReceived = 0
    /\ network = TRUE
    /\ activeStream = 0
    /\ listeners = <<0>>
    /\ streamState = [s \in StreamIds |-> "unopened"]
    /\ streamLog = [s \in StreamIds |-> <<>>]

NoName == "none"
PeerIds == {"p1", "p2", "pSelf"}   \* pSelf: this node's own overlay peer id

DirInit ==
    /\ knownPeerToEthMap = [p \in PeerIds |-> NoAddr]
    /\ knownAgentNames = [a \in Accounts |-> NoName]
    /\ peerOrder = <<>>
    /\ verifiedSignals = {}

NoSend == [pc |-> "idle"]
NoResult == [status |-> "none"]

\* a node on which sendMessage has not been called
SendIdle ==
    /\ useEncryption = FALSE
    /\ sending = NoSend
    /\ published = <<>>
    /\ messagesSent = 0
    /\ sendResult = NoResult
    /\ dhtQueries = 0
    /\ sendCalls = 0
    /\ dialResult = "none"

\* no network of nodes is modelled
NetIdle ==
    /\ netUseEncryption = [n \in Accounts |-> FALSE]
    /\ netPayload = <<>>
    /\ netSent = <<>>
    /\ netReturned = <<>>
    /\ netHandled = {}
    /\ netEmitted = [n \in Accounts |-> <<>>]

NoAgentName == <<>>
NoOptions == [built |-> FALSE]

\* no name and no role is modelled
RoleIdle ==
    /\ agentName = NoAgentName
    /\ configRole = "FULL"
    /\ bootstrapMode = FALSE
    /\ options = NoOptions
    /\ connections = 0

\* no registration is modelled
RegIdle ==
    /\ entry = "main"
    /\ chainRegistered = TRUE
    /\ reg = "idle"
    /\ regResult = [status |-> "none"]
    /\ registerTxs = 0
    /\ envFault = "none"
    /\ exitCode = -1

NoStatus == [stored |-> FALSE]

\* signed status reports of other nodes, as broadcastStatus builds them
StatusReports ==
    {[fromAgentId |-> Addr(a, "checksum"), signer |-> k] : a, k \in {"alice", "bob"}}

\* the status table of a node that has received nothing
StatusEmpty ==
    /\ nodeStatuses = [a \in Accounts |-> NoStatus]
    /\ statusResult = {}
    /\ statusPurged = {}
    /\ statusSeen = [r \in StatusReports |-> -1]

\* no status traffic is modelled
StatusIdle == StatusEmpty /\ now = 0

\* no call of the Local API was made
ApiIdle ==
    /\ apiStop = "idle"
    /\ stopCalls = 0
    /\ apiReplies = <<>>

OtherIdle == NetIdle /\ RoleIdle /\ RegIdle /\ StatusIdle /\ ApiIdle

ExtIdle == SendIdle /\ OtherIdle

\* getBootstrapNodes(network): the four compiled-in bootstrap peers, in order
BootstrapSeq   == <<"bootstrap-1", "bootstrap-2", "bootstrap-3", "bootstrap-4">>
BootstrapNodes == {BootstrapSeq[k] : k \in 1..Len(BootstrapSeq)}

\* no dial was made
NoDials == [b \in BootstrapNodes |-> [attempts |-> 0, uncapped |-> 0]]

\* node.dial(multiaddr(addr), { signal: AbortSignal.timeout(10000) }) when
\* capped, node.dial(multiaddr(addr)) when not
Dialed(d, addr, capped) ==
    [d EXCEPT ![addr] = [attempts |-> @.attempts + 1,
                         uncapped |-> @.uncapped + (IF capped THEN 0 ELSE 1)]]

\* a node whose start() has returned
LifeRunning ==
    /\ pc = "running"
    /\ isBootstrapName = FALSE
    /\ reachable = BootstrapNodes
    /\ peers = {"bootstrap-1"}
    /\ addrIdx = 0
    /\ attempt = 0
    /\ timers = {"status", "announce", "maintenance"}
    /\ updateInterval = FALSE
    /\ stopped = FALSE
    /\ periodicRuns = 0
    /\ sincePublish = 0
    /\ sinceTick = [t \in TimerNames |-> 0]
    /\ dials = NoDials

Init == MsgInit /\ DirInit /\ LifeRunning /\ ExtIdle

Next ==
    \/ \E m \in WireMessages(Len(handlers) + 1) : PubsubDeliver(m)
    \/ \E t \in Topics, k \in BadKinds : PubsubDeliverBad(t, k)
    \/ \E i \in 1..MaxMsgs : VerifyDone(i)
    \/ \E i \in 1..MaxMsgs : DecryptDone(i)
    \/ \E s \in StreamIds : Connect(s)
    \/ \E s \in StreamIds : ConnectRequest(s)
    \/ \E s \in StreamIds : StreamClose(s)
    \/ GrpcStop

Spec == Init /\ [][Next]_vars


(***************************************************************************)
(* Directory (DirSpec).  Inputs of a running node: announcements on        *)
(* agent-announcements, peer:connect events completed by a DHT get, and    *)
(* lookups made by sendMessage.                                            *)
(***************************************************************************)
\* "": an announcement without agentName (undefined) or with an empty one
Names == {"n1", ""}
Signers == {"alice", "bob", "unsigned"}
\* the addresses directory inputs carry: the own one and another account's
DirAddress == [acct : {"self", "alice"}, form : Forms]

\* the payloads the mesh can hand over on agent-announcements; signer is
\* the account that signed the enclosing message, if any
Announcements ==
    [peerId : PeerIds \cup {""}, agentId : DirAddress \cup {NoAddr},
     agentName : Names, signer : Signers]

\* storePeerMapping(peerId, ethAddress)
storePeerMapping(map, peerId, ethAddress) == [map EXCEPT ![peerId] = ethAddress]

\* Map.prototype.set keeps the position of a key it already holds and puts a
\* new key last
MapSetOrder(order, peerId) ==
    IF \E k \in 1..Len(order) : order[k] = peerId THEN order
    ELSE Append(order, peerId)

\* !peerId || !agentId || agentId === this.account.address
isIgnoredAnnouncement(ann) ==
    \/ ann.peerId = ""
    \/ ann.agentId = NoAddr
    \/ ann.agentId = accountAddress

\* the enclosing message is signed by fromAgentId, which is the announced address
SignedByAnnounced(ann) == ann.agentId # NoAddr /\ ann.signer = ann.agentId.acct

\* the pubsub listener, topic agent-announcements: verifyAndProcessAnnouncement
ReceiveAnnouncement(ann) ==
    /\ ~stopped
    /\ IF isIgnoredAnnouncement(ann)
       THEN UNCHANGED <<knownPeerToEthMap, knownAgentNames, peerOrder>>
       ELSE /\ knownAgentNames' =
                  [knownAgentNames EXCEPT ![ann.agentId.acct] = ann.agentName]
            /\ knownPeerToEthMap' =
                  storePeerMapping(knownPeerToEthMap, ann.peerId, ann.agentId)
            /\ peerOrder' = MapSetOrder(peerOrder, ann.peerId)
    /\ verifiedSignals' =
          IF ann.peerId # "" /\ SignedByAnnounced(ann)
          THEN verifiedSignals \cup {<<ann.peerId, ann.agentId.acct>>}
          ELSE verifiedSignals
    /\ UNCHANGED <<msgVars, lifeVars, extVars>>

\* a "peer:connect" listener that stores whatever the lookup gave it
PeerConnectStoresAny(peerId, agentId) ==
    /\ ~stopped
    /\ knownPeerToEthMap' = [knownPeerToEthMap EXCEPT ![peerId] = agentId]
    /\ peerOrder' = MapSetOrder(peerOrder, peerId)
    /\ verifiedSignals' = verifiedSignals \cup {<<peerId, agentId.acct>>}
    /\ UNCHANGED knownAgentNames
    /\ UNCHANGED <<msgVars, lifeVars, extVars>>

\* the "peer:connect" listener: dht.get("/eth/<peerId>") yields a VALUE whose
\* record carries agentId (NoAddr: no agentId, no VALUE, or the get threw)
PeerConnect(peerId, agentId) ==
    /\ ~stopped
    /\ knownPeerToEthMap' =
          IF agentId # NoAddr
          THEN [knownPeerToEthMap EXCEPT ![peerId] = agentId]
          ELSE knownPeerToEthMap
    /\ peerOrder' =
          IF agentId # NoAddr THEN MapSetOrder(peerOrder, peerId) ELSE peerOrder
    /\ verifiedSignals' =
          IF agentId # NoAddr
          THEN verifiedSignals \cup {<<peerId, agentId.acct>>}
          ELSE verifiedSignals
    /\ UNCHANGED knownAgentNames
    /\ UNCHANGED <<msgVars, lifeVars, extVars>>

\* the local scan of lookupPeerIdByAddress
LocalPeers(ethAddress) ==
    {p \in PeerIds : knownPeerToEthMap[p] # NoAddr
                     /\ ToLowerCase(knownPeerToEthMap[p]) = ToLowerCase(ethAddress)}

\* the local scan of lookupPeerIdByAddress returns the first key, in the
\* iteration order of the map, whose address matches ("" = none)
RECURSIVE FirstMatch(_, _)
FirstMatch(order, ethAddress) ==
    IF order = <<>> THEN ""
    ELSE IF ToLowerCase(knownPeerToEthMap[Head(order)]) = ToLowerCase(ethAddress)
         THEN Head(order)
         ELSE FirstMatch(Tail(order), ethAddress)

\* a local scan that compares the addresses as written
LocalLookupExact(ethAddress) ==
    IF \E k \in 1..Len(peerOrder) : knownPeerToEthMap[peerOrder[k]] = ethAddress
    THEN peerOrder[CHOOSE k \in 1..Len(peerOrder) :
                      /\ knownPeerToEthMap[peerOrder[k]] = ethAddress
                      /\ \A j \in 1..(k - 1) :
                            knownPeerToEthMap[peerOrder[j]] # ethAddress]
    ELSE ""

LocalLookup(ethAddress) == FirstMatch(peerOrder, ethAddress)

\* the peers the DHT can name as providers of "/eth/<address>": a node
\* provides the key of its own address (publishToDHT)
Providers(ethAddress) ==
    IF ethAddress.acct = "self" THEN {"pSelf"} ELSE PeerIds \ {"pSelf"}

\* lookupPeerIdByAddress(ethAddress), called by sendMessage(toAgentId, ...):
\* a local hit changes nothing; else the first PROVIDER event is stored
LookupPeerIdByAddress(ethAddress, provider) ==
    /\ ~stopped
    /\ IF LocalPeers(ethAddress) # {} \/ provider = ""
       THEN UNCHANGED <<knownPeerToEthMap, peerOrder, verifiedSignals>>
       ELSE /\ provider \in Providers(ethAddress)
            /\ knownPeerToEthMap' =
                  storePeerMapping(knownPeerToEthMap, provider, ethAddress)
            /\ peerOrder' = MapSetOrder(peerOrder, provider)
            /\ verifiedSignals' = verifiedSignals \cup {<<provider, ethAddress.acct>>}
    /\ UNCHANGED knownAgentNames
    /\ UNCHANGED <<msgVars, lifeVars, extVars>>

\* records[lowercaseAddr] = { peerId, ... } for each entry of the map in
\* iteration order: a later entry with the same address replaces the record
RECURSIVE RecordsOf(_, _)
RecordsOf(order, records) ==
    IF order = <<>> THEN records
    ELSE RecordsOf(Tail(order),
                   [records EXCEPT ![knownPeerToEthMap[Head(order)].acct] = Head(order)])

\* getDHTRecords(): the peer id of the record of each lowercase address
\* ("" = no record)
getDHTRecords == RecordsOf(peerOrder, [a \in Accounts |-> ""])

\* knownAgentNames.get(lowercaseAddr) || `Agent ${ethAddr.slice(0, 6)}`
AgentNameOf(ethAddr) ==
    IF knownAgentNames[ethAddr.acct] \notin {NoName, ""}
    THEN knownAgentNames[ethAddr.acct]
    ELSE <<"Agent ", ethAddr>>

\* getDHTRecords() as Object.entries sees it: a property per lowercase
\* address in the order of its first assignment, holding the last record
\* assigned to it
RECURSIVE RecordEntries(_, _)
RecordEntries(order, records) ==
    IF order = <<>> THEN records
    ELSE LET ethAddr == knownPeerToEthMap[Head(order)]
             record == [key |-> ToLowerCase(ethAddr), peerId |-> Head(order),
                        agentId |-> ethAddr, agentName |-> AgentNameOf(ethAddr)]
             held == {k \in 1..Len(records) : records[k].key = record.key}
         IN RecordEntries(Tail(order),
                IF held = {} THEN Append(records, record)
                ELSE [k \in 1..Len(records) |->
                         IF k \in held THEN record ELSE records[k]])

\* the agents array of the ListAgents response
ListAgentsResponse ==
    LET entries == RecordEntries(peerOrder, <<>>)
    IN [k \in 1..Len(entries) |->
           [agent_id |-> entries[k].key,
            agent_name |-> IF entries[k].agentName # "" THEN entries[k].agentName
                           ELSE <<"Agent ", entries[k].key>>,
            peer_id |-> entries[k].peerId]]

\* ListAgents: the agent_id of every record
ListAgents == {Addr(a, "lower") : a \in {x \in Accounts : getDHTRecords[x] # ""}}

\* ListAgents: the peer_id of the record of an address
ListAgentsPeerId(ethAddress) == getDHTRecords[ethAddress.acct]

DirNext ==
    \/ \E ann \in Announcements : ReceiveAnnouncement(ann)
    \/ \E p \in PeerIds \ {"pSelf"}, a \in DirAddress \cup {NoAddr} : PeerConnect(p, a)
    \/ \E a \in DirAddress, p \in PeerIds \cup {""} : LookupPeerIdByAddress(a, p)

DirSpec == Init /\ [][DirNext]_vars


(***************************************************************************)
(* Lifecycle (LifeSpec): start(port), the intervals it installs, stop().   *)
(***************************************************************************)
StatusEvery == 60000
AnnounceEvery == 10000
MaintenanceEvery == 60000
DhtCheckEvery == 30000
MinDHTUpdateInterval == 10000
MaxBootstrapAttempts == 5   \* startDiscovery, a non-bootstrap node
MaxPeerAttempts      == 3   \* startDiscovery, a bootstrap node, per peer

\* the pinned peer id of a node named bootstrap-1
SelfBootstrap == "bootstrap-1"

RECURSIVE Without(_, _)
Without(seq, x) ==
    IF seq = <<>> THEN <<>>
    ELSE IF Head(seq) = x THEN Without(Tail(seq), x)
    ELSE <<Head(seq)>> \o Without(Tail(seq), x)

\* the keys of BOOTSTRAP_URLS, BOOTSTRAP_PEER_IDS and BOOTSTRAP_PORTS; a name
\* is its prefix and the rest
RegistryNames == {<<"bootstrap-", n>> : n \in {"1", "2", "3", "4"}}

\* this.node.peerId: the pinned id of a bootstrap node of the registry, else
\* an id that no registry entry carries
selfPeerId ==
    IF isBootstrapName /\ agentName \in RegistryNames \cup {NoAgentName}
    THEN SelfBootstrap ELSE "self-peer"

\* getBootstrapNodes(...).filter(addr => !addr.includes(this.node.peerId))
otherBootstrapNodes == Without(BootstrapSeq, selfPeerId)

lifeConfig == <<isBootstrapName, reachable, updateInterval>>
lifeFixed == <<lifeConfig, sincePublish, sinceTick>>
lifeRest == <<lifeFixed, dials>>

\* createLibp2p(options); node.start(): a listener that cannot start throws
StartNode(listenOk) ==
    /\ pc = "created"
    /\ pc' = IF listenOk THEN "setupPubSub" ELSE "failed"
    /\ UNCHANGED <<peers, addrIdx, attempt, timers, stopped, periodicRuns, lifeRest>>
    /\ UNCHANGED <<msgVars, dirVars, extVars>>

\* setupPubSub(): subscriptions, the listeners, one status broadcast and one
\* announcement, and the two intervals (60 s status, 10 s announcement)
SetupPubSub ==
    /\ pc = "setupPubSub"
    /\ timers' = timers \cup {"status", "announce"}
    /\ pc' = IF isBootstrapName THEN "connectBootstrap" ELSE "waitBootstrap"
    /\ sincePublish' = 0
    /\ sinceTick' = [sinceTick EXCEPT !["status"] = 0, !["announce"] = 0]
    /\ UNCHANGED <<peers, addrIdx, attempt, stopped, periodicRuns, lifeConfig, dials>>
    /\ UNCHANGED <<msgVars, dirVars, extVars>>

\* bootstrap mode: dht.start(), then connectToBootstrapNodes(): one dial per
\* other bootstrap peer, failures logged; the 30 s DHT status interval
ConnectToBootstrapNodes(connected) ==
    /\ pc = "connectBootstrap"
    /\ connected \subseteq (reachable \ {selfPeerId})
    /\ peers' = peers \cup connected
    /\ timers' = timers \cup {"dhtCheck"}
    /\ sinceTick' = [sinceTick EXCEPT !["dhtCheck"] = 0]
    /\ UNCHANGED sincePublish
    /\ pc' = "startDiscovery"
    /\ addrIdx' = 1
    /\ attempt' = 1
    /\ dials' = [b \in BootstrapNodes |->
                   IF b = selfPeerId THEN dials[b] ELSE Dialed(dials, b, FALSE)[b]]
    /\ UNCHANGED <<stopped, periodicRuns, lifeConfig>>
    /\ UNCHANGED <<msgVars, dirVars, extVars>>

\* waitForBootstrapConnection(): a 1 s poll that resolves once getPeers() is
\* not empty; it has no deadline and never rejects
WaitForBootstrapConnection ==
    /\ pc = "waitBootstrap"
    /\ peers # {}
    /\ pc' = "startDiscovery"
    /\ addrIdx' = 1
    /\ attempt' = 1
    /\ UNCHANGED <<peers, timers, stopped, periodicRuns, lifeRest>>
    /\ UNCHANGED <<msgVars, dirVars, extVars>>

\* startDiscovery() of a non-bootstrap node: one dial of the loop
\*   for attempt 1..5 (while not connected) for addr of bootstrapNodes
DialBootstrap(ok) ==
    /\ pc = "startDiscovery"
    /\ ~isBootstrapName
    /\ ok => BootstrapSeq[addrIdx] \in reachable
    /\ IF ok
       THEN /\ peers' = peers \cup {BootstrapSeq[addrIdx]}
            /\ pc' = "publishToDHT"
            /\ UNCHANGED <<addrIdx, attempt>>
       ELSE /\ UNCHANGED peers
            /\ IF addrIdx < Len(BootstrapSeq)
               THEN /\ addrIdx' = addrIdx + 1
                    /\ UNCHANGED <<attempt, pc>>
               ELSE IF attempt < MaxBootstrapAttempts
               THEN /\ attempt' = attempt + 1      \* after the 5 s backoff
                    /\ addrIdx' = 1
                    /\ UNCHANGED pc
               ELSE \* throw "Failed to connect to any bootstrap nodes after 5 attempts"
                    /\ pc' = "failed"
                    /\ UNCHANGED <<addrIdx, attempt>>
    /\ dials' = Dialed(dials, BootstrapSeq[addrIdx], TRUE)
    /\ UNCHANGED <<timers, stopped, periodicRuns, lifeFixed>>
    /\ UNCHANGED <<msgVars, dirVars, extVars>>

\* a startDiscovery() of a bootstrap node that throws once a peer has failed
\* on its last attempt
DialOtherBootstrapFatal(ok) ==
    /\ pc = "startDiscovery"
    /\ isBootstrapName
    /\ ok => otherBootstrapNodes[addrIdx] \in reachable
    /\ peers' = IF ok THEN peers \cup {otherBootstrapNodes[addrIdx]} ELSE peers
    /\ IF ~ok /\ attempt < MaxPeerAttempts
       THEN /\ attempt' = attempt + 1
            /\ UNCHANGED <<addrIdx, pc>>
       ELSE IF ~ok
       THEN /\ pc' = "failed"
            /\ UNCHANGED <<addrIdx, attempt>>
       ELSE IF addrIdx < Len(otherBootstrapNodes)
       THEN /\ addrIdx' = addrIdx + 1
            /\ attempt' = 1
            /\ UNCHANGED pc
       ELSE /\ pc' = "publishToDHT"
            /\ UNCHANGED <<addrIdx, attempt>>
    /\ dials' = Dialed(dials, otherBootstrapNodes[addrIdx], TRUE)
    /\ UNCHANGED <<timers, stopped, periodicRuns, lifeFixed>>
    /\ UNCHANGED <<msgVars, dirVars, extVars>>

\* startDiscovery() of a bootstrap node: one dial of the loop
\*   for addr of otherBootstrapNodes for attempt 1..3 (while not connected)
\* a failed peer is given up after the third attempt; then dht.start().
\* (The hard-coded address table is keyed "us-1".."us-4", which no compiled-in
\* hostname contains, so no peer mapping is stored here.)
DialOtherBootstrap(ok) ==
    /\ pc = "startDiscovery"
    /\ isBootstrapName
    /\ ok => otherBootstrapNodes[addrIdx] \in reachable
    /\ peers' = IF ok THEN peers \cup {otherBootstrapNodes[addrIdx]} ELSE peers
    /\ IF ~ok /\ attempt < MaxPeerAttempts
       THEN /\ attempt' = attempt + 1              \* after the 5 s backoff
            /\ UNCHANGED <<addrIdx, pc>>
       ELSE IF addrIdx < Len(otherBootstrapNodes)
       THEN /\ addrIdx' = addrIdx + 1
            /\ attempt' = 1
            /\ UNCHANGED pc
       ELSE /\ pc' = "publishToDHT"
            /\ UNCHANGED <<addrIdx, attempt>>
    /\ dials' = Dialed(dials, otherBootstrapNodes[addrIdx], TRUE)
    /\ UNCHANGED <<timers, stopped, periodicRuns, lifeFixed>>
    /\ UNCHANGED <<msgVars, dirVars, extVars>>

\* await this.publishToDHT(): provide and announce, failures logged
PublishToDHT ==
    /\ pc = "publishToDHT"
    /\ pc' = "startDHTMaintenance"
    /\ sincePublish' = 0
    /\ UNCHANGED <<peers, addrIdx, attempt, timers, stopped, periodicRuns,
                   lifeConfig, dials, sinceTick>>
    /\ UNCHANGED <<msgVars, dirVars, extVars>>

\* startDHTMaintenance(): publishToDHT() and the 60 s interval; start() returns
StartDHTMaintenance ==
    /\ pc = "startDHTMaintenance"
    /\ timers' = timers \cup {"maintenance"}
    /\ pc' = "running"
    /\ sincePublish' = 0
    /\ sinceTick' = [sinceTick EXCEPT !["maintenance"] = 0]
    /\ UNCHANGED <<peers, addrIdx, attempt, stopped, periodicRuns, lifeConfig, dials>>
    /\ UNCHANGED <<msgVars, dirVars, extVars>>

\* the callback of an installed interval runs: broadcastStatus (status),
\* announcePresence (announce), publishToDHT (maintenance), getDHTRecords
\* (dhtCheck); each attempts its publish or DHT operation
TimerTick(t) ==
    /\ t \in timers
    /\ periodicRuns < MaxRuns
    /\ periodicRuns' = periodicRuns + 1
    /\ sincePublish' = IF t \in {"announce", "maintenance"} THEN 0 ELSE sincePublish
    /\ sinceTick' = [sinceTick EXCEPT ![t] = 0]
    /\ UNCHANGED <<pc, peers, addrIdx, attempt, timers, stopped, lifeConfig, dials>>
    /\ UNCHANGED <<msgVars, dirVars, extVars>>

\* a peer connects to the node: a bootstrap peer that is reachable (gossipsub
\* dials its direct peers) or some other peer, inbound
PeerConnects(p) ==
    /\ pc \notin {"created", "failed"}
    /\ ~stopped
    /\ p \in (reachable \cup {"other"}) \ peers
    /\ p # selfPeerId
    /\ peers' = peers \cup {p}
    /\ UNCHANGED <<pc, addrIdx, attempt, timers, stopped, periodicRuns, lifeRest>>
    /\ UNCHANGED <<msgVars, dirVars, extVars>>

\* stop() called on a started node (API Stop, SIGINT, SIGTERM)
NetStop ==
    /\ pc = "running"
    /\ ~stopped
    /\ stop
    /\ UNCHANGED <<msgVars, dirVars, extVars>>

LifeInit ==
    /\ MsgInit
    /\ DirInit
    /\ ExtIdle
    /\ pc = "created"
    /\ isBootstrapName \in BOOLEAN
    /\ reachable \in SUBSET BootstrapNodes
    /\ peers = {}
    /\ addrIdx = 0
    /\ attempt = 0
    /\ timers = {}
    /\ updateInterval = FALSE
    /\ stopped = FALSE
    /\ periodicRuns = 0
    /\ NoPublication
    /\ dials = NoDials

\* the steps of start(port)
StartStep ==
    \/ \E ok \in BOOLEAN : StartNode(ok)
    \/ SetupPubSub
    \/ \E c \in SUBSET BootstrapNodes : ConnectToBootstrapNodes(c)
    \/ WaitForBootstrapConnection
    \/ \E ok \in BOOLEAN : DialBootstrap(ok)
    \/ \E ok \in BOOLEAN : DialOtherBootstrap(ok)
    \/ PublishToDHT
    \/ StartDHTMaintenance

\* the steps the node takes by itself once start() was called
LifeNodeStep ==
    \/ StartStep
    \/ \E t \in TimerNames : TimerTick(t)

LifeNext ==
    \/ LifeNodeStep
    \/ \E p \in BootstrapNodes \cup {"other"} : PeerConnects(p)
    \/ NetStop

LifeSpec == LifeInit /\ [][LifeNext]_vars

\* the delay of each setInterval, ms
Every(t) ==
    CASE t = "status" -> StatusEvery
      [] t = "announce" -> AnnounceEvery
      [] t = "maintenance" -> MaintenanceEvery
      [] t = "dhtCheck" -> DhtCheckEvery

Later(ms, limit) == IF ms + AnnounceEvery < limit THEN ms + AnnounceEvery ELSE limit

\* 10 s pass on the node's clock; an interval that is due runs first
TimePasses ==
    /\ pc \notin {"created", "failed"}
    /\ ~stopped
    /\ \A t \in timers : sinceTick[t] < Every(t)
    /\ sincePublish >= 0
    /\ sincePublish' = Later(sincePublish, MaintenanceEvery)
    /\ sinceTick' = [t \in TimerNames |->
                        IF t \in timers THEN Later(sinceTick[t], Every(t))
                        ELSE sinceTick[t]]
    /\ UNCHANGED <<pc, peers, addrIdx, attempt, timers, stopped, periodicRuns,
                   lifeConfig, dials>>
    /\ UNCHANGED <<msgVars, dirVars, extVars>>

\* start() and the intervals on a clock: an interval runs when its delay
\* has passed
PublishNext ==
    \/ StartStep
    \/ \E t \in TimerNames : sinceTick[t] = Every(t) /\ TimerTick(t)
    \/ \E p \in BootstrapNodes \cup {"other"} : PeerConnects(p)
    \/ TimePasses

PublishSpec == LifeInit /\ [][PublishNext]_vars

\* the event loop runs every step of the node that stays possible; whether a
\* peer ever connects, or stop() is ever called, is up to the environment
LifeFairSpec == LifeSpec /\ WF_vars(LifeNodeStep)


(***************************************************************************)
(* P2PNetwork.sendMessage(toAgentId, content), one step per await.         *)
(***************************************************************************)
\* how the findProviders stream of a query behaves: it yields a PROVIDER
\* event, ends without one, throws, or neither yields nor ends
StreamOutcomes == {"provider", "ends", "throws", "stalls"}

\* getPublicKeyFromContract and encrypt: the key is read, readContract
\* throws, JSON.parse of the metadata throws, or encrypt rejects the key
RegistryOutcomes == {"key", "readFails", "parseFails", "encryptFails"}

SendTargets == {Addr("alice", "checksum"), Addr("alice", "lower")}

\* messageData with its signature, on the node of the account
EnvelopeFrom(acct, id, to, content) ==
    WithSignature(Body(id, Addr(acct, "checksum"), to, content),
                  signMessage(acct, Body(id, Addr(acct, "checksum"), to, content)))

\* messageData with its signature: { ...messageData, signature }
Envelope(id, to, content) == EnvelopeFrom("self", id, to, content)

\* a failure that is counted as a sent message
SendFailsCounted(why) ==
    /\ sendResult' = [status |-> why]
    /\ sending' = NoSend
    /\ messagesSent' = messagesSent + 1
    /\ UNCHANGED published

\* throw new Error(...) out of sendMessage; the catch rethrows
SendFails(why) ==
    /\ sendResult' = [status |-> why]
    /\ sending' = NoSend
    /\ UNCHANGED <<published, messagesSent>>

\* sendMessage up to the first pending await of lookupPeerIdByAddress: the
\* local scan, and on a miss the findProviders query
SendMessage(to, content, stream) ==
    /\ ~stopped
    /\ sending.pc = "idle"
    /\ sendCalls < MaxSends
    /\ sendCalls' = sendCalls + 1
    /\ sendResult' = NoResult
    /\ IF LocalLookup(to) # ""
       THEN /\ sending' = [pc |-> "prepare", to |-> to, content |-> content,
                           target |-> LocalLookup(to), stream |-> "none"]
            /\ UNCHANGED dhtQueries
       ELSE /\ sending' = [pc |-> "findProviders", to |-> to, content |-> content,
                           target |-> "", stream |-> stream]
            /\ dhtQueries' = dhtQueries + 1
    /\ dialResult' = "none"
    /\ UNCHANGED <<useEncryption, published, messagesSent>>
    /\ UNCHANGED <<msgVars, dirVars, lifeVars, otherVars>>

\* lookupPeerIdByAddress: the for await over findProviders gets an event,
\* the end of the stream, or an exception
FindProviders(provider) ==
    /\ sending.pc = "findProviders"
    /\ sending.stream # "stalls"
    /\ IF sending.stream = "provider"
       THEN /\ provider \in Providers(sending.to)
            /\ knownPeerToEthMap' =
                  storePeerMapping(knownPeerToEthMap, provider, sending.to)
            /\ peerOrder' = MapSetOrder(peerOrder, provider)
            /\ verifiedSignals' = verifiedSignals \cup {<<provider, sending.to.acct>>}
            /\ sending' = [sending EXCEPT !.pc = "prepare", !.target = provider]
            /\ UNCHANGED <<sendResult, published, messagesSent>>
       ELSE \* return null; Could not find PeerId for address
            /\ SendFails("NoRoute")
            /\ UNCHANGED <<knownPeerToEthMap, peerOrder, verifiedSignals>>
    /\ UNCHANGED <<useEncryption, dhtQueries, sendCalls, dialResult, knownAgentNames>>
    /\ UNCHANGED <<msgVars, lifeVars, otherVars>>

\* peerStore.get(targetPeerId) and node.dial(targetPeerId): the peer is in
\* the store (no dial), the dial succeeds, the dial throws, the store throws
DialOutcomes == {"known", "dialed", "dialFailed", "peerStoreFailed"}

\* the try/catch around the direct connection: a failure is logged
DirectConnection(outcome) == dialResult' = outcome

\* a preparation that rethrows the failure of the direct connection
PrepareDialFatal(registry) ==
    /\ sending.pc = "prepare"
    /\ \E d \in DialOutcomes :
          /\ DirectConnection(d)
          /\ IF d \in {"dialFailed", "peerStoreFailed"}
             THEN SendFails("DialFailed")
             ELSE IF useEncryption /\ registry # "key"
             THEN SendFails("EncryptionError")
             ELSE /\ sending' =
                        [sending EXCEPT
                           !.pc = "publish",
                           !.content =
                              IF useEncryption
                              THEN Encrypt(sending.to.acct, TextEncode(sending.content))
                              ELSE PlainContent(TextEncode(sending.content))]
                  /\ UNCHANGED <<sendResult, published, messagesSent>>
    /\ UNCHANGED <<useEncryption, dhtQueries, sendCalls>>
    /\ UNCHANGED <<msgVars, dirVars, lifeVars, otherVars>>

\* a preparation that sends the plaintext when the key cannot be used
PreparePlainFallback(registry) ==
    /\ sending.pc = "prepare"
    /\ sending' =
          [sending EXCEPT
             !.pc = "publish",
             !.content =
                IF useEncryption /\ registry = "key"
                THEN Encrypt(sending.to.acct, TextEncode(sending.content))
                ELSE PlainContent(TextEncode(sending.content))]
    /\ UNCHANGED <<sendResult, published, messagesSent>>
    /\ \E d \in DialOutcomes : DirectConnection(d)
    /\ UNCHANGED <<useEncryption, dhtQueries, sendCalls>>
    /\ UNCHANGED <<msgVars, dirVars, lifeVars, otherVars>>

\* the dial attempt (its failure is only logged), then the content field
Prepare(registry) ==
    /\ sending.pc = "prepare"
    /\ IF useEncryption /\ registry # "key"
       THEN SendFails("EncryptionError")
       ELSE /\ sending' =
                  [sending EXCEPT
                     !.pc = "publish",
                     !.content =
                        IF useEncryption
                        THEN Encrypt(sending.to.acct, TextEncode(sending.content))
                        ELSE PlainContent(TextEncode(sending.content))]
            /\ UNCHANGED <<sendResult, published, messagesSent>>
    /\ \E d \in DialOutcomes : DirectConnection(d)
    /\ UNCHANGED <<useEncryption, dhtQueries, sendCalls>>
    /\ UNCHANGED <<msgVars, dirVars, lifeVars, otherVars>>

\* signMessage, pubsub.publish("agent-messages", ...), messagesSent++
Publish(ok) ==
    /\ sending.pc = "publish"
    /\ IF ok
       THEN /\ published' =
                  Append(published, Envelope(sendCalls, sending.to, sending.content))
            /\ messagesSent' = messagesSent + 1
            /\ sendResult' = [status |-> "ok", messageId |-> sendCalls]
            /\ sending' = NoSend
       ELSE SendFails("PublishFailed")
    /\ UNCHANGED <<useEncryption, dhtQueries, sendCalls, dialResult>>
    /\ UNCHANGED <<msgVars, dirVars, lifeVars, otherVars>>

\* the announcements of alice, from either of her overlay peer ids
SendAnnouncements ==
    {[peerId |-> p, agentId |-> Alice, agentName |-> "n1", signer |-> "alice"] :
        p \in {"p1", "p2"}}

SendInit ==
    /\ MsgInit
    /\ DirInit
    /\ LifeRunning
    /\ OtherIdle
    /\ useEncryption \in BOOLEAN
    /\ sending = NoSend
    /\ published = <<>>
    /\ messagesSent = 0
    /\ sendResult = NoResult
    /\ dhtQueries = 0
    /\ sendCalls = 0
    /\ dialResult = "none"

\* the steps a pending sendMessage call takes by itself
SendStep ==
    \/ \E p \in PeerIds : FindProviders(p)
    \/ \E r \in RegistryOutcomes : Prepare(r)
    \/ \E ok \in BOOLEAN : Publish(ok)

SendNext ==
    \/ \E to \in SendTargets, c \in Payloads, st \in StreamOutcomes :
          SendMessage(to, c, st)
    \/ SendStep
    \/ \E ann \in SendAnnouncements : ReceiveAnnouncement(ann)

SendSpec == SendInit /\ [][SendNext]_vars

\* a pending call takes every step that stays possible
SendFairSpec == SendSpec /\ WF_vars(SendStep)

(***************************************************************************)
(* Role and name (RoleSpec): initNode builds a P2PNetwork from config.name  *)
(* and config.role and starts it.                                          *)
(***************************************************************************)
NodeRoles == {"BOOTSTRAP", "FULL", "SERVER", "LIGHT"}

AgentNames == {<<"bootstrap-", "1">>, <<"bootstrap-", "9">>, <<"agent-", "1">>}

\* name.startsWith(prefix)
startsWith(name, prefix) == name # NoAgentName /\ name[1] = prefix

\* export const roleConfigs: the settings of the claim
roleConfigs ==
    [BOOTSTRAP |-> [maxConnections |-> 1000, minConnections |-> 3,
                    maxParallelDials |-> 100, kBucketSize |-> 200,
                    dhtServerMode |-> TRUE, enableDHT |-> TRUE,
                    enableGossip |-> TRUE],
     FULL      |-> [maxConnections |-> 50, minConnections |-> 1,
                    maxParallelDials |-> 25, kBucketSize |-> 20,
                    dhtServerMode |-> FALSE, enableDHT |-> TRUE,
                    enableGossip |-> TRUE],
     SERVER    |-> [maxConnections |-> 100, minConnections |-> 2,
                    maxParallelDials |-> 50, kBucketSize |-> 20,
                    dhtServerMode |-> FALSE, enableDHT |-> TRUE,
                    enableGossip |-> TRUE],
     LIGHT     |-> [maxConnections |-> 10, minConnections |-> 1,
                    maxParallelDials |-> 10, kBucketSize |-> 0,
                    dhtServerMode |-> FALSE, enableDHT |-> FALSE,
                    enableGossip |-> FALSE]]

\* getBootstrapHostname(network, name), getBootstrapPort(network, name): the
\* entry of the name, undefined for a name the tables do not hold
getBootstrapHostname(name) == IF name \in RegistryNames THEN name ELSE "undefined"
getBootstrapPort(name)     == IF name \in RegistryNames THEN name ELSE "undefined"

\* getBootstrapNodes(network).map(node => node.split("/p2p/")[1]): peer ids
bootstrapAddresses == {[peerId |-> b] : b \in BootstrapNodes}

\* the constructor: bootstrapAddresses.includes(account.address.toLowerCase())
ConstructorBootstrapMode == ToLowerCase(accountAddress) \in bootstrapAddresses

\* the options object of start(): every setting is chosen by
\* this.agentName.startsWith("bootstrap-"); the pubsub and dht services are
\* always configured
StartOptions(name) ==
    LET boot == startsWith(name, "bootstrap-")
    IN [built            |-> TRUE,
        maxConnections   |-> IF boot THEN 1000 ELSE 50,
        minConnections   |-> IF boot THEN 3 ELSE 1,
        maxParallelDials |-> IF boot THEN 100 ELSE 25,
        kBucketSize      |-> IF boot THEN 200 ELSE 20,
        dhtServerMode    |-> boot,           \* clientMode: !startsWith
        enableDHT        |-> TRUE,           \* services.dht: kadDHT(...)
        enableGossip     |-> TRUE,           \* services.pubsub: gossipsub(...)
        announce         |-> IF boot
                             THEN << <<getBootstrapHostname(name),
                                       getBootstrapPort(name)>> >>
                             ELSE <<>>]

\* the settings of an options object that the role table also has
Settings(o) == [f \in DOMAIN roleConfigs["FULL"] |-> o[f]]

\* start(port), up to createLibp2p: the options are built and a name with
\* the bootstrap prefix sets this.bootstrapMode
BuildOptions ==
    /\ pc = "created"
    /\ options = NoOptions
    /\ options' = StartOptions(agentName)
    /\ bootstrapMode' = (bootstrapMode \/ startsWith(agentName, "bootstrap-"))
    /\ UNCHANGED <<agentName, configRole, connections>>
    /\ UNCHANGED <<msgVars, dirVars, lifeVars, sendVars, netVars, regVars, statusVars, apiVars>>

RoleInit ==
    /\ MsgInit
    /\ DirInit
    /\ SendIdle
    /\ ApiIdle
    /\ NetIdle
    /\ RegIdle
    /\ StatusIdle
    /\ agentName \in AgentNames
    /\ configRole \in NodeRoles
    /\ bootstrapMode = ConstructorBootstrapMode
    /\ options = NoOptions
    /\ connections = 0
    /\ pc = "created"
    /\ isBootstrapName = startsWith(agentName, "bootstrap-")
    /\ reachable = BootstrapNodes
    /\ peers = {}
    /\ addrIdx = 0
    /\ attempt = 0
    /\ timers = {}
    /\ updateInterval = FALSE
    /\ stopped = FALSE
    /\ periodicRuns = 0
    /\ NoPublication
    /\ dials = NoDials

RoleNext ==
    \/ BuildOptions
    \/ options # NoOptions /\ LifeNext

RoleSpec == RoleInit /\ [][RoleNext]_vars

(***************************************************************************)
(* Connections (ConnSpec): a started node whose peers open and close       *)
(* connections.                                                            *)
(***************************************************************************)
\* a connection opens, inbound or outbound.  No listener is registered for
\* it: handleNewConnection is defined and never called, so the only limit is
\* connectionManager.maxConnections of the options, which the connection
\* manager of the engine enforces by closing connections above it
ConnectionOpens ==
    /\ pc = "running"
    /\ ~stopped
    /\ connections' = IF connections + 1 > options.maxConnections
                      THEN options.maxConnections
                      ELSE connections + 1
    /\ UNCHANGED <<agentName, configRole, bootstrapMode, options>>
    /\ UNCHANGED <<msgVars, dirVars, lifeVars, sendVars, netVars, regVars, statusVars, apiVars>>

\* a peer closes a connection
ConnectionCloses ==
    /\ connections > 0
    /\ connections' = connections - 1
    /\ UNCHANGED <<agentName, configRole, bootstrapMode, options>>
    /\ UNCHANGED <<msgVars, dirVars, lifeVars, sendVars, netVars, regVars, statusVars, apiVars>>

\* a node after start() returned
ConnInit ==
    /\ MsgInit
    /\ DirInit
    /\ SendIdle
    /\ ApiIdle
    /\ NetIdle
    /\ RegIdle
    /\ StatusIdle
    /\ agentName \in AgentNames
    /\ configRole \in NodeRoles
    /\ bootstrapMode = startsWith(agentName, "bootstrap-")
    /\ options = StartOptions(agentName)
    /\ connections = 0
    /\ pc = "running"
    /\ isBootstrapName = startsWith(agentName, "bootstrap-")
    /\ reachable = BootstrapNodes
    /\ peers = {}
    /\ addrIdx = 0
    /\ attempt = 0
    /\ timers = {"status", "announce", "maintenance"}
    /\ updateInterval = FALSE
    /\ stopped = FALSE
    /\ periodicRuns = 0
    /\ NoPublication
    /\ dials = NoDials

ConnNext == ConnectionOpens \/ ConnectionCloses

ConnSpec == ConnInit /\ [][ConnNext]_vars

(***************************************************************************)
(* The node process (RegSpec): an entry point constructs the P2PNetwork,   *)
(* awaits start(port) and, in initNode only, registerWithContract().       *)
(***************************************************************************)
EntryPoints == {"initNode", "main"}

\* what can be missing when the process starts: PRIVATE_KEY, a valid
\* NODE_TYPE, BOOTSTRAP_PRIVATE_KEY of a bootstrap node
EnvFaults == {"none", "missingSecret", "invalidNodeType", "missingBootstrapKey"}

\* registerWithContract ends: "returned" (with the hash or with nothing) or
\* "thrown"
RegEnds(how, hash) ==
    /\ reg' = "done"
    /\ regResult' = [status |-> how, hash |-> hash]

\* await p2p.registerWithContract() once start() has returned: the
\* isRegistered pre-check; a read that fails throws through the catch
RegisterCheck(readOk) ==
    /\ entry = "initNode"
    /\ pc = "running"
    /\ reg = "idle"
    /\ IF ~readOk THEN RegEnds("thrown", FALSE)
       ELSE IF chainRegistered THEN RegEnds("returned", FALSE)
       ELSE reg' = "write" /\ UNCHANGED regResult
    /\ UNCHANGED <<entry, envFault, exitCode, chainRegistered, registerTxs>>
    /\ UNCHANGED <<msgVars, dirVars, lifeVars, sendVars, netVars, roleVars, statusVars, apiVars>>

\* walletClient.writeContract(registerAgent): the transaction is sent, or
\* the call throws; an error naming AgentAlreadyRegistered (the account was
\* registered after the pre-check) is turned into a return by the catch
RegisterWrite(outcome) ==
    /\ reg = "write"
    /\ outcome = "AgentAlreadyRegistered" => chainRegistered
    /\ outcome = "sent" => registerTxs' = registerTxs + 1 /\ reg' = "wait"
                           /\ UNCHANGED regResult
    /\ outcome = "AgentAlreadyRegistered" =>
          RegEnds("returned", FALSE) /\ UNCHANGED registerTxs
    /\ outcome = "otherError" => RegEnds("thrown", FALSE) /\ UNCHANGED registerTxs
    /\ UNCHANGED <<entry, envFault, exitCode, chainRegistered>>
    /\ UNCHANGED <<msgVars, dirVars, lifeVars, sendVars, netVars, roleVars, statusVars, apiVars>>

\* publicClient.waitForTransactionReceipt({ hash }): it resolves with the
\* receipt of the included transaction, executed or reverted, and throws
\* when no receipt arrives; the receipt is not looked at
RegisterReceipt(outcome) ==
    /\ reg = "wait"
    /\ outcome = "success" => ~chainRegistered
    /\ chainRegistered' = (chainRegistered \/ outcome = "success")
    /\ IF outcome = "noReceipt" THEN RegEnds("thrown", FALSE)
       ELSE RegEnds("returned", TRUE)
    /\ UNCHANGED <<entry, envFault, exitCode, registerTxs>>
    /\ UNCHANGED <<msgVars, dirVars, lifeVars, sendVars, netVars, roleVars, statusVars, apiVars>>

\* another process of the same account gets its registration included
ChainRegisters ==
    /\ ~chainRegistered
    /\ reg \in {"write", "wait"}
    /\ chainRegistered' = TRUE
    /\ UNCHANGED <<entry, envFault, exitCode, reg, regResult, registerTxs>>
    /\ UNCHANGED <<msgVars, dirVars, lifeVars, sendVars, netVars, roleVars, statusVars, apiVars>>

RegInit ==
    /\ MsgInit
    /\ DirInit
    /\ SendIdle
    /\ ApiIdle
    /\ NetIdle
    /\ RoleIdle
    /\ StatusIdle
    /\ entry \in EntryPoints
    /\ chainRegistered \in BOOLEAN
    /\ reg = "idle"
    /\ regResult = [status |-> "none"]
    /\ registerTxs = 0
    /\ envFault \in EnvFaults
    /\ exitCode = -1
    /\ pc = "created"
    /\ isBootstrapName \in BOOLEAN
    /\ reachable \in {{}, BootstrapNodes}
    /\ envFault = "missingBootstrapKey" => (entry = "initNode" /\ isBootstrapName)
    /\ envFault = "invalidNodeType" => entry = "initNode"
    /\ peers = {}
    /\ addrIdx = 0
    /\ attempt = 0
    /\ timers = {}
    /\ updateInterval = FALSE
    /\ stopped = FALSE
    /\ periodicRuns = 0
    /\ NoPublication
    /\ dials = NoDials

\* the startup has met a fatal error: the environment validation or
\* getBootstrapKey threw, start() threw, or registerWithContract threw
StartupFailed ==
    envFault # "none" \/ pc = "failed" \/ regResult.status = "thrown"

\* the process is running and its startup has not failed
ProcessRuns == exitCode = -1 /\ ~StartupFailed

\* the throw at module level, or the catch of start() / main():
\* process.exit(1)
FatalExit ==
    /\ exitCode = -1
    /\ StartupFailed
    /\ exitCode' = 1
    /\ UNCHANGED <<entry, envFault, chainRegistered, reg, regResult, registerTxs>>
    /\ UNCHANGED <<msgVars, dirVars, lifeVars, sendVars, netVars, roleVars, statusVars, apiVars>>

\* SIGTERM or SIGINT: shutdown() / cleanup(): await p2p.stop();
\* process.exit(0)
Shutdown ==
    /\ ProcessRuns
    /\ stop
    /\ exitCode' = 0
    /\ UNCHANGED <<entry, envFault, chainRegistered, reg, regResult, registerTxs>>
    /\ UNCHANGED <<msgVars, dirVars, sendVars, netVars, roleVars, statusVars, apiVars>>

\* the steps of registerWithContract
RegisterStep ==
    \/ \E ok \in BOOLEAN : RegisterCheck(ok)
    \/ \E o \in {"sent", "AgentAlreadyRegistered", "otherError"} : RegisterWrite(o)
    \/ \E o \in {"success", "reverted", "noReceipt"} : RegisterReceipt(o)

\* the steps the process takes by itself
ProcessStep ==
    \/ ProcessRuns /\ (LifeNodeStep \/ RegisterStep)
    \/ FatalExit

RegNext ==
    \/ ProcessRuns /\ (LifeNext \/ RegisterStep \/ ChainRegisters)
    \/ FatalExit
    \/ Shutdown

RegSpec == RegInit /\ [][RegNext]_vars

(***************************************************************************)
(* P2PGrpcService: the unary calls Stop, SendMessage and ListAgents.       *)
(***************************************************************************)
\* callback(null, ...)
ReplyOk(call) == [call |-> call, code |-> "OK", message |-> ""]

\* callback({ code: 13, message: error.message })
ReplyInternal(call, message) == [call |-> call, code |-> "INTERNAL", message |-> message]

ApiCalls == Len(apiReplies) + (IF apiStop = "stopping" THEN 1 ELSE 0)

\* a Stop that forgets the network when stop() throws
StopReturnsForgetting(ok) ==
    /\ apiStop = "stopping"
    /\ apiStop' = "idle"
    /\ network' = FALSE
    /\ IF ok
       THEN /\ stop
            /\ apiReplies' = Append(apiReplies, ReplyOk("Stop"))
       ELSE /\ apiReplies' = Append(apiReplies, ReplyInternal("Stop", "stop failed"))
            /\ UNCHANGED lifeVars
    /\ UNCHANGED stopCalls
    /\ UNCHANGED <<handlers, emitted, messagesReceived, activeStream, listeners,
                   streamState, streamLog>>
    /\ UNCHANGED <<dirVars, sendVars, netVars, roleVars, regVars, statusVars>>

\* Stop up to 'await this.network.stop()', or to its callback when there is
\* no network
StopCall ==
    /\ apiStop = "idle"
    /\ ApiCalls < MaxCalls
    /\ IF network
       THEN /\ apiStop' = "stopping"
            /\ stopCalls' = stopCalls + 1
            /\ UNCHANGED apiReplies
       ELSE /\ apiReplies' = Append(apiReplies, ReplyOk("Stop"))
            /\ UNCHANGED <<apiStop, stopCalls>>
    /\ UNCHANGED <<msgVars, dirVars, lifeVars, sendVars, netVars, roleVars,
                   regVars, statusVars>>

\* Stop after the await: this.network = null and callback(null, {}), or the
\* catch when stop() threw
StopReturns(ok) ==
    /\ apiStop = "stopping"
    /\ apiStop' = "idle"
    /\ IF ok
       THEN /\ stop
            /\ network' = FALSE
            /\ apiReplies' = Append(apiReplies, ReplyOk("Stop"))
       ELSE /\ apiReplies' = Append(apiReplies, ReplyInternal("Stop", "stop failed"))
            /\ UNCHANGED <<network, lifeVars>>
    /\ UNCHANGED stopCalls
    /\ UNCHANGED <<handlers, emitted, messagesReceived, activeStream, listeners,
                   streamState, streamLog>>
    /\ UNCHANGED <<dirVars, sendVars, netVars, roleVars, regVars, statusVars>>

\* SendMessage up to 'await this.network.sendMessage(to, content)'
ApiSendMessage(to, content, stream) ==
    /\ ApiCalls < MaxCalls
    /\ IF ~network
       THEN /\ apiReplies' =
                  Append(apiReplies, ReplyInternal("SendMessage", "Network not started"))
            /\ UNCHANGED <<apiStop, stopCalls>>
            /\ UNCHANGED <<msgVars, dirVars, lifeVars, sendVars, netVars, roleVars,
                           regVars, statusVars>>
       ELSE SendMessage(to, content, stream)

\* ListAgents
ApiListAgents ==
    /\ ApiCalls < MaxCalls
    /\ apiReplies' =
          Append(apiReplies,
                 IF ~network THEN ReplyInternal("ListAgents", "Network not started")
                 ELSE ReplyOk("ListAgents"))
    /\ UNCHANGED <<apiStop, stopCalls>>
    /\ UNCHANGED <<msgVars, dirVars, lifeVars, sendVars, netVars, roleVars,
                   regVars, statusVars>>

UnaryInit == SendInit /\ useEncryption = FALSE

UnaryNext ==
    \/ StopCall
    \/ \E ok \in BOOLEAN : StopReturns(ok)
    \/ \E st \in {"provider", "ends"} : ApiSendMessage(Alice, Hi, st)
    \/ ApiListAgents
    \/ SendStep

UnarySpec == UnaryInit /\ [][UnaryNext]_vars

\* the directory under peer:connect events, lookups, and the announcements
\* of one remote account
PeerDirNext ==
    \/ \E p \in PeerIds \ {"pSelf"}, a \in DirAddress \cup {NoAddr} : PeerConnect(p, a)
    \/ \E a \in DirAddress, p \in PeerIds \cup {""} : LookupPeerIdByAddress(a, p)
    \/ \E ann \in SendAnnouncements : ReceiveAnnouncement(ann)

PeerDirSpec == Init /\ [][PeerDirNext]_vars

\* the event loop runs every step of the process that stays possible; peers
\* connecting, signals and the registry are up to the environment
RegFairSpec == RegSpec /\ WF_vars(ProcessStep)

(***************************************************************************)
(* Node status (StatusSpec, StatusTableSpec): the node-status topic and    *)
(* getNetworkStatus().                                                     *)
(***************************************************************************)
StatusMaxAge == 120000      \* getNetworkStatus: 120_000 ms

\* the instants looked at: around one and two maximal ages
Times == {0, 1, StatusMaxAge, StatusMaxAge + 1, 2 * StatusMaxAge + 1}

\* a purge test that also drops a report of exactly the maximal age
isExpiredAtLimit(status) == now - status.receivedAt >= StatusMaxAge

\* now - status.receivedAt > 120_000
isExpired(status) == now - status.receivedAt > StatusMaxAge

\* the pubsub 'message' listener is handed a report on node-status: it
\* decodes and parses it; its branches are agent-announcements and
\* agent-messages only, so nothing is called for it (handleStatusUpdate has
\* no caller) and nothing is stored
StatusArrives(r) ==
    /\ ~stopped
    /\ statusSeen' = [statusSeen EXCEPT ![r] = now]
    /\ UNCHANGED <<nodeStatuses, now, statusResult, statusPurged>>
    /\ UNCHANGED <<msgVars, dirVars, lifeVars, sendVars, netVars, roleVars, regVars, apiVars>>

\* time passes
AdvanceClock(t) ==
    /\ t > now
    /\ now' = t
    /\ UNCHANGED <<nodeStatuses, statusResult, statusPurged, statusSeen>>
    /\ UNCHANGED <<msgVars, dirVars, lifeVars, sendVars, netVars, roleVars, regVars, apiVars>>

\* getNetworkStatus(): delete the expired entries, return the values left
GetNetworkStatus ==
    LET expired == {a \in Accounts : nodeStatuses[a] # NoStatus /\ isExpired(nodeStatuses[a])}
        kept    == [a \in Accounts |-> IF a \in expired THEN NoStatus ELSE nodeStatuses[a]]
    IN /\ nodeStatuses' = kept
       /\ statusPurged' = expired
       /\ statusResult' = {kept[a] : a \in {x \in Accounts : kept[x] # NoStatus}}
       /\ UNCHANGED <<now, statusSeen>>
       /\ UNCHANGED <<msgVars, dirVars, lifeVars, sendVars, netVars, roleVars, regVars, apiVars>>

\* a started node
StatusSelfInit ==
    /\ MsgInit
    /\ DirInit
    /\ LifeRunning
    /\ SendIdle
    /\ ApiIdle
    /\ NetIdle
    /\ RoleIdle
    /\ RegIdle

StatusInit == StatusSelfInit /\ StatusEmpty /\ now = 0

StatusNext ==
    \/ \E r \in StatusReports : StatusArrives(r)
    \/ \E t \in Times : AdvanceClock(t)
    \/ GetNetworkStatus

StatusSpec == StatusInit /\ [][StatusNext]_vars

\* getNetworkStatus() on any status table: every account has no entry or a
\* report received at one of the instants up to now
StatusTableInit ==
    /\ StatusSelfInit
    /\ now \in Times
    /\ nodeStatuses \in [Accounts -> {NoStatus} \cup
                            {[stored |-> TRUE, receivedAt |-> t] : t \in Times}]
    /\ \A a \in Accounts :
          nodeStatuses[a] # NoStatus => nodeStatuses[a].receivedAt <= now
    /\ statusResult = {}
    /\ statusPurged = {}
    /\ statusSeen = [r \in StatusReports |-> -1]

StatusTableNext ==
    \/ \E t \in Times : AdvanceClock(t)
    \/ GetNetworkStatus

StatusTableSpec == StatusTableInit /\ [][StatusTableNext]_vars

(***************************************************************************)
(* The API streams of a running node whose peers connect (ApiSpec).  The   *)
(* handlers setupEventListeners registers for 'ready' and 'peer:connect'   *)
(* are never invoked: P2PNetwork emits 'message', 'log' and                *)
(* 'status-update' only, so a connecting peer writes nothing to a stream.  *)
(***************************************************************************)
ApiNext ==
    \/ \E c \in StreamIds : Connect(c)
    \/ \E c \in StreamIds : ConnectRequest(c)
    \/ \E c \in StreamIds : StreamClose(c)
    \/ \E b \in BootstrapNodes \cup {"other"} : PeerConnects(b)

ApiSpec == Init /\ [][ApiNext]_vars

(***************************************************************************)
(* A network of started nodes that know each other, as the message test    *)
(* of the test runner sets it up: every node sends one message to every    *)
(* other node, one send after the other; the mesh hands every published    *)
(* envelope once to the listener of every subscriber.                      *)
(***************************************************************************)
Agents == Accounts

\* for (fromNode of agents) for (toNode of agents) if (from !== to)
NetPairs == << <<"self", "alice">>, <<"self", "bob">>, <<"alice", "self">>,
              <<"alice", "bob">>, <<"bob", "self">>, <<"bob", "alice">> >>

\* handleAgentMessage on the node of the account, from its first line to
\* its last: the 'message' events of the node after it
HandledAt(acct, m, log) ==
    IF ~verifyMessage(m) \/ hasNoRecipient(m) \/ ~isForMeAt(acct, m) THEN log
    ELSE Append(log, [messageId   |-> m.messageId,
                      fromAgentId |-> m.fromAgentId,
                      toAgentId   |-> m.toAgentId,
                      content     |-> IF CanDecryptAs(acct, m.content)
                                      THEN Decrypt(m.content)
                                      ELSE Utf8Decode(m.content)])

\* the content field sendMessage builds on a node
ContentFor(encrypts, to, content) ==
    IF encrypts THEN Encrypt(to, TextEncode(content))
    ELSE PlainContent(TextEncode(content))

\* await fromNode.sendMessage(toNode.getAddress(), message): the lookup
\* resolves, the key is read, the publish succeeds; with emitSelf the
\* sender's own listener is handed the envelope inside publish
NetSend ==
    /\ Len(netSent) < Len(NetPairs)
    /\ LET k    == Len(netSent) + 1
           from == NetPairs[k][1]
           to   == NetPairs[k][2]
           m    == EnvelopeFrom(from, k, Addr(to, "checksum"),
                                ContentFor(netUseEncryption[from], to, netPayload))
       IN /\ netSent' = Append(netSent, m)
          /\ netReturned' = Append(netReturned, m.messageId)
          /\ netHandled' = netHandled \cup {<<k, from>>}
          /\ netEmitted' = [netEmitted EXCEPT ![from] = HandledAt(from, m, @)]
    /\ UNCHANGED <<netUseEncryption, netPayload>>
    /\ UNCHANGED <<msgVars, dirVars, lifeVars, sendVars, roleVars, regVars, statusVars, apiVars>>

\* the pubsub 'message' listener of node n is handed the k-th envelope
NetDeliver(k, n) ==
    /\ k \in 1..Len(netSent)
    /\ <<k, n>> \notin netHandled
    /\ netHandled' = netHandled \cup {<<k, n>>}
    /\ netEmitted' = [netEmitted EXCEPT ![n] = HandledAt(n, netSent[k], @)]
    /\ UNCHANGED <<netUseEncryption, netPayload, netSent, netReturned>>
    /\ UNCHANGED <<msgVars, dirVars, lifeVars, sendVars, roleVars, regVars, statusVars, apiVars>>

NetInit ==
    /\ MsgInit
    /\ DirInit
    /\ LifeRunning
    /\ SendIdle
    /\ ApiIdle
    /\ RoleIdle
    /\ RegIdle
    /\ StatusIdle
    /\ netUseEncryption \in [Agents -> BOOLEAN]
    /\ netPayload \in Payloads
    /\ netSent = <<>>
    /\ netReturned = <<>>
    /\ netHandled = {}
    /\ netEmitted = [n \in Agents |-> <<>>]

NetNext ==
    \/ NetSend
    \/ \E k \in 1..Len(NetPairs), n \in Agents : NetDeliver(k, n)

NetSpec == NetInit /\ [][NetNext]_vars

\* every send of the test is made and the mesh delivers every envelope
NetFairSpec == NetSpec /\ WF_vars(NetNext)

(***************************************************************************)
(* Properties.                                                             *)
(***************************************************************************)
MessageRefs(s) ==
    {streamLog[s][k].ref : k \in {j \in 1..Len(streamLog[s]) :
                                      streamLog[s][j].type = "message"}}

ReadyCount(s) ==
    Cardinality({k \in 1..Len(streamLog[s]) : streamLog[s][k].type = "ready"})

\* the signature is the one the account in fromAgentId makes over the
\* canonical JSON of all other fields
SignedBySender(m) == m.signature = signMessage(m.fromAgentId.acct, Rest(m))

\* C1: every 'message' event the node emits, and every Message event written
\* to an API stream, is for a message whose signature is the one its
\* fromAgentId makes over all other fields; a message whose signature does
\* not verify is dropped and reaches no stream.
C1_SignatureVerified ==
    /\ \A k \in 1..Len(emitted) :
          /\ handlers[emitted[k].id].pc = "emitted"
          /\ SignedBySender(handlers[emitted[k].id].msg)
    /\ \A s \in StreamIds : \A i \in MessageRefs(s) :
          /\ handlers[i].pc = "emitted"
          /\ SignedBySender(handlers[i].msg)

\* a forged message was dropped and an honest one was written to a stream
C1_Witness ==
    /\ \E i \in 1..Len(handlers) : handlers[i].pc = "invalidSignature"
    /\ \E s \in StreamIds : MessageRefs(s) # {}

\* C2: every Message event written to a stream of this node is for a message
\* whose toAgentId equals the node's address, compared case-insensitively; a
\* message for another address writes nothing: no Message event, and no
\* Error event (the only Error events are those of a Connect without network).
C2_OnlyAddressee ==
    \A s \in StreamIds :
       /\ \A i \in MessageRefs(s) :
             /\ handlers[i].pc = "emitted"
             /\ ToLowerCase(handlers[i].msg.toAgentId) = ToLowerCase(accountAddress)
       /\ \A k \in 1..Len(streamLog[s]) : streamLog[s][k].type = "error" => ~network

\* a message for another address was dropped while a stream was writable,
\* and one addressed in lowercase was written to a stream
C2_Witness ==
    /\ \E i \in 1..Len(handlers) : handlers[i].pc = "notForMe"
    /\ \E s \in StreamIds :
          /\ Writable(s)
          /\ \E i \in MessageRefs(s) :
                handlers[i].msg.toAgentId = Addr("self", "lower")

\* C3: every directory entry, hence every ListAgents entry, comes from a
\* verified signal: a DHT completion for the address, or an announcement
\* signed by the announced address.
C3_OnlyVerifiedSignals ==
    /\ \A p \in PeerIds :
          knownPeerToEthMap[p] # NoAddr
             => <<p, knownPeerToEthMap[p].acct>> \in verifiedSignals
    /\ \A a \in ListAgents : \E p \in PeerIds : <<p, a.acct>> \in verifiedSignals
    /\ \A a \in Accounts :
          knownAgentNames[a] # NoName => \E p \in PeerIds : <<p, a>> \in verifiedSignals

\* C4: the directory (peer table, name table, ListAgents) never holds the
\* node's own address, compared case-insensitively.
C4_NoSelfInDirectory ==
    /\ \A p \in PeerIds :
          ToLowerCase(knownPeerToEthMap[p]) # ToLowerCase(accountAddress)
    /\ knownAgentNames["self"] = NoName
    /\ ToLowerCase(accountAddress) \notin ListAgents

\* C5: once stop() has returned, no periodic task runs again.
C5_NoPeriodicTaskAfterStop ==
    [][stopped => periodicRuns' = periodicRuns]_vars

\* C6: a node that is not a bootstrap node and can reach no bootstrap peer
\* eventually fails start().
C6_StartEventuallyFails ==
    (~isBootstrapName /\ reachable = {}) => <>(pc = "failed")

\* C7: on every stream Ready is written at most once, and no Message event
\* is written before it.
C7_ReadyFirstOnce ==
    \A s \in StreamIds :
       /\ ReadyCount(s) <= 1
       /\ \A k \in 1..Len(streamLog[s]) :
             streamLog[s][k].type = "message"
                => \E j \in 1..(k - 1) : streamLog[s][j].type = "ready"

\* a stream that was sent its Ready and is still open and writable
Subscribed(s) == Writable(s) /\ ReadyCount(s) > 0

\* C8: when a message is emitted for local delivery, every subscribed stream
\* is written a Message event for it.
C8_FanOutToAll ==
    [][Len(emitted') > Len(emitted)
          => \A s \in StreamIds :
                Subscribed(s)
                   => streamLog'[s] =
                         Append(streamLog[s], MessageEvent(emitted'[Len(emitted')].id))]_vars

\* C9: a step writes to a stream only if the stream is open and writable in
\* that step, it writes one event, and a Message event it writes is for the
\* message emitted in that very step (nothing is kept for later streams).
C9_LossyNoReplay ==
    [][\A s \in StreamIds :
          streamLog'[s] # streamLog[s]
             => /\ Writable(s)
                /\ Len(streamLog'[s]) = Len(streamLog[s]) + 1
                /\ SubSeq(streamLog'[s], 1, Len(streamLog[s])) = streamLog[s]
                /\ LET e == streamLog'[s][Len(streamLog'[s])] IN
                      e.type = "message"
                         => /\ Len(emitted') = Len(emitted) + 1
                            /\ e.ref = emitted'[Len(emitted')].id]_vars

\* a message was emitted that no stream was written, and a stream that was
\* sent its Ready is open and writable
C9_Witness ==
    /\ \E k \in 1..Len(emitted) :
          \A s \in StreamIds : emitted[k].id \notin MessageRefs(s)
    /\ \E s \in StreamIds : Subscribed(s)

\* C10: messages are emitted in the order the pubsub delivered them.
C10_DeliveryOrder ==
    \A j, k \in 1..Len(emitted) : j < k => emitted[j].id < emitted[k].id


\* C11: when the recipient cannot be resolved (no local binding, and the DHT
\* query ends without a provider or throws), sendMessage fails with the
\* no-route error and changes nothing: no publish, no messageId, no
\* messagesSent increment, no directory change; and nothing is ever
\* published for a call that has no target peer id.
C11_NoRouteLeavesNodeUnchanged ==
    [][/\ (/\ sending.pc = "findProviders"
           /\ sending.stream \in {"ends", "throws"}
           /\ sending' # sending)
          => /\ sendResult' = [status |-> "NoRoute"]
             /\ sending' = NoSend
             /\ published' = published
             /\ messagesSent' = messagesSent
             /\ UNCHANGED dirVars
       /\ published' # published => sending.target # ""]_vars

\* a call ended with the no-route error after its DHT query threw
C11_Witness ==
    /\ sendResult = [status |-> "NoRoute"]
    /\ sending = NoSend
    /\ dhtQueries = 1
    /\ sendCalls = 1
    /\ published = <<>>

\* C12: with encryption enabled every published envelope carries ciphertext
\* under the key of its recipient; a call whose key cannot be fetched, parsed
\* or used fails with EncryptionError and publishes nothing; and a call ends
\* with a messageId right after its publish, or with one of NoRoute,
\* EncryptionError, PublishFailed.
C12_EncryptOrFail ==
    /\ [](/\ useEncryption
             => \A k \in 1..Len(published) :
                   /\ published[k].content.enc
                   /\ published[k].content.key = published[k].toAgentId.acct
          /\ sendResult.status \in
                {"none", "ok", "NoRoute", "EncryptionError", "PublishFailed"})
    /\ [][/\ (sending.pc = "prepare" /\ useEncryption /\ sending'.pc = "publish")
             => sending'.content.enc
          /\ (sendResult' # sendResult /\ sendResult'.status = "ok")
             => /\ Len(published') = Len(published) + 1
                /\ published'[Len(published')].messageId = sendResult'.messageId
                /\ messagesSent' = messagesSent + 1
          /\ (sendResult' # sendResult /\ sendResult'.status # "ok")
             => /\ published' = published
                /\ messagesSent' = messagesSent]_vars

\* with encryption enabled one call was published and a later one failed
\* with EncryptionError
C12_Witness ==
    /\ useEncryption
    /\ Len(published) = 1
    /\ sendResult = [status |-> "EncryptionError"]

\* the directory binds the address to some peer id, compared in lowercase
BoundLocally(ethAddress) ==
    \E p \in PeerIds :
       /\ knownPeerToEthMap[p] # NoAddr
       /\ ToLowerCase(knownPeerToEthMap[p]) = ToLowerCase(ethAddress)

C16_LookupTerminates == (sending.pc # "idle") ~> (sending.pc = "idle")

\* C17: the directory binds an address to at most one peer id, and lookup
\* and ListAgents report the same peer id for it.
C17_BindingCorrected ==
    \A a \in SendTargets :
       /\ Cardinality(LocalPeers(a)) <= 1
       /\ LocalLookup(a) = ListAgentsPeerId(a)


\* C13: the content a node emits for a message equals the text its sender
\* passed to sendMessage, whether the sender encrypted it or not.
C13_ContentRoundTrip ==
    \A n \in Agents : \A j \in 1..Len(netEmitted[n]) :
       netEmitted[n][j].content = netPayload

\* the number of 'message' events emitted by all nodes
TotalEmitted ==
    Len(netEmitted["self"]) + Len(netEmitted["alice"]) + Len(netEmitted["bob"])

C18_SettingsOfRole ==
    options # NoOptions => Settings(options) = roleConfigs[configRole]

\* the node publishes on agent-announcements (announcePresence at the end of
\* setupPubSub)
AnnouncementStep == pc = "setupPubSub" /\ pc' # "setupPubSub"

\* the node issues dht.provide (publishToDHT)
DhtProvideStep == pc = "publishToDHT" /\ pc' = "startDHTMaintenance"

\* C19: a node configured with the LIGHT role is started without DHT and
\* gossip and takes no step that publishes an announcement or issues a DHT
\* operation.
C19_LightNoDhtNoAnnouncement ==
    /\ [](configRole = "LIGHT" /\ options # NoOptions
             => ~options.enableDHT /\ ~options.enableGossip)
    /\ [][configRole = "LIGHT" => ~(AnnouncementStep \/ DhtProvideStep)]_vars

\* the node runs as a bootstrap peer: DHT server mode, a registry address
\* announced, no bootstrap connection awaited
RunsAsBootstrap ==
    bootstrapMode /\ options.dhtServerMode /\ options.announce # <<>>

\* C20: a started node runs as a bootstrap peer if and only if its address
\* or its name is an entry of the bootstrap registry.
C20_BootstrapIffRegistered ==
    options # NoOptions =>
       (RunsAsBootstrap <=> (agentName \in RegistryNames \/ ConstructorBootstrapMode))


\* C21: the number of connections of a started node never stays above the
\* maxConnections of its configured role.
C21_ConnectionBudget ==
    connections <= roleConfigs[configRole].maxConnections


\* the dial budget per bootstrap peer of the node
DialBudget == IF isBootstrapName THEN MaxPeerAttempts ELSE MaxBootstrapAttempts

\* C22: start() dials no bootstrap peer more often than its budget (3 on a
\* bootstrap node, 5 otherwise), every dial has the 10 s limit, and a node
\* with a pinned peer id never dials itself.
C22_BoundedDials ==
    /\ \A b \in BootstrapNodes :
          dials[b].attempts <= DialBudget /\ dials[b].uncapped = 0
    /\ isBootstrapName => dials[selfPeerId].attempts = 0


C24_RegisterIdempotent ==
    /\ (registerTxs > 0 => reg \in {"wait", "done"})
    /\ (regResult.status = "returned" => chainRegistered)

\* the node has joined the overlay: setupPubSub has published its
\* announcement (dials and the DHT provide follow)
JoinedOverlay == pc \notin {"created", "setupPubSub", "failed"}

\* C25: the node joins the overlay only after its registration was confirmed
\* or found to exist already.
C25_RegisteredBeforeJoin ==
    JoinedOverlay => regResult.status = "returned" /\ chainRegistered


\* C26: a status report with a valid signature that the node-status topic
\* delivered at most 120 s ago is in the status table under its sender.
C26_ValidStatusStored ==
    \A r \in StatusReports :
       (/\ statusSeen[r] >= 0
        /\ r.signer = r.fromAgentId.acct
        /\ now - statusSeen[r] <= StatusMaxAge)
       => nodeStatuses[r.fromAgentId.acct] # NoStatus

\* C27: a getNetworkStatus() call deletes exactly the reports received more
\* than 120 000 ms before it, returns exactly the reports it leaves, none of
\* them older than that, and does not touch the directory.
C27_PurgeOnQuery ==
    /\ [](\A e \in statusResult : now - e.receivedAt <= StatusMaxAge
                                  \/ \E a \in Accounts : nodeStatuses[a] = e)
    /\ [][statusResult' # statusResult \/ statusPurged' # statusPurged \/
          nodeStatuses' # nodeStatuses =>
            /\ \A a \in Accounts :
                  nodeStatuses'[a] =
                     IF nodeStatuses[a] # NoStatus
                        /\ now - nodeStatuses[a].receivedAt > StatusMaxAge
                     THEN NoStatus ELSE nodeStatuses[a]
            /\ statusPurged' = {a \in Accounts : nodeStatuses'[a] # nodeStatuses[a]}
            /\ \A e \in statusResult' : now - e.receivedAt <= StatusMaxAge
            /\ statusResult' = {nodeStatuses'[a] : a \in {x \in Accounts : nodeStatuses'[x] # NoStatus}}
            /\ UNCHANGED dirVars]_vars

\* a query has deleted an expired report and returned one that is exactly
\* 120 s old
C27_Witness ==
    /\ statusPurged # {}
    /\ \E e \in statusResult : now - e.receivedAt = StatusMaxAge


\* C28: when an inbound message fails signature verification, an Error event
\* is written to every open API stream.
C28_ErrorsSurfaced ==
    [][\A i \in 1..Len(handlers) :
          handlers[i].pc = "verifying" /\ handlers'[i].pc = "invalidSignature"
          => \A c \in StreamIds :
                Writable(c) =>
                   /\ Len(streamLog'[c]) = Len(streamLog[c]) + 1
                   /\ streamLog'[c][Len(streamLog'[c])].type = "error"]_vars

\* C29: a stream whose Connect failed (its first event is Error) is closed
\* and carries no Ready and no Message event.
C29_ConnectTwoOutcomes ==
    \A c \in StreamIds :
       Len(streamLog[c]) > 0 /\ streamLog[c][1].type = "error"
       => /\ streamState[c] = "closed"
          /\ \A k \in 1..Len(streamLog[c]) : streamLog[c][k].type = "error"

\* C30: when a peer connects while a stream is open, writable and has got
\* its Ready, a PeerConnected event for that peer is written to the stream.
C30_PeerConnectedForwarded ==
    [][\A b \in BootstrapNodes \cup {"other"} :
          b \notin peers /\ b \in peers'
          => \A c \in StreamIds :
                Subscribed(c) =>
                   /\ Len(streamLog'[c]) = Len(streamLog[c]) + 1
                   /\ streamLog'[c][Len(streamLog'[c])] =
                         [type |-> "peerConnected", ref |-> b]]_vars


\* a non-bootstrap node none of whose bootstrap peers can be reached
BootstrapUnreachable ==
    envFault = "none" /\ ~isBootstrapName /\ reachable = {} /\ pc = "created"

\* C31: the process exits 0 only after stop() completed and no startup error
\* occurred, exits 1 only after a startup error, and every fatal startup
\* error, unreachable bootstrap peers included, ends the process.
C31_ExitCodes ==
    /\ [](exitCode = 0 => stopped /\ ~StartupFailed)
    /\ [](exitCode = 1 => StartupFailed)
    /\ (StartupFailed ~> exitCode = 1)
    /\ (BootstrapUnreachable ~> exitCode # -1)


\* C32: every agent_id of the ListAgents response is lowercase, no two
\* entries share an agent_id, and every entry has a non-empty peer_id and a
\* non-empty agent_name.
C32_ListAgentsKeyedByLowercase ==
    LET agents == ListAgentsResponse
    IN /\ \A k \in 1..Len(agents) :
             /\ agents[k].agent_id.form = "lower"
             /\ agents[k].peer_id # ""
             /\ agents[k].agent_name # ""
       /\ \A j, k \in 1..Len(agents) :
             agents[j].agent_id = agents[k].agent_id => j = k

\* two peers are bound to one account in different letter cases, one of them
\* announced without a name: the response has one entry
C32_Witness ==
    /\ \E p, q \in PeerIds :
          /\ knownPeerToEthMap[p] = Addr("alice", "checksum")
          /\ knownPeerToEthMap[q] = Addr("alice", "lower")
    /\ knownAgentNames["alice"] = ""
    /\ Len(ListAgentsResponse) = 1


\* C33: every account address held in the binding table is stored in
\* lowercase, whatever letter case the announcement, provider hit or
\* peer-connect record carried (the names table is keyed by
\* agentId.toLowerCase(), which knownAgentNames has as its domain).
C33_WritesLowercase ==
    \A p \in PeerIds : knownPeerToEthMap[p].form = "lower"


\* a step that publishes the node's own binding: the announcement of
\* setupPubSub, publishToDHT of start() and of startDHTMaintenance, a run of
\* the announcement or the maintenance interval
PublishesBinding ==
    \/ SetupPubSub
    \/ PublishToDHT
    \/ StartDHTMaintenance
    \/ TimerTick("announce")
    \/ TimerTick("maintenance")

\* C34: a publication of the own binding never follows the previous one by
\* less than minDHTUpdateInterval (the smallest of the four roles, 10 s).
C34_PublicationsSpaced ==
    [][PublishesBinding =>
          (sincePublish = -1 \/ sincePublish >= MinDHTUpdateInterval)]_vars


\* the direct connection attempt of the current call has failed
DialHasFailed == dialResult \in {"dialFailed", "peerStoreFailed"}

\* C35: a failed dial of (or peer-store query for) the resolved recipient
\* does not end the call: the call goes on to build the content and publish,
\* and it ends only with the message id or with a failure of the encryption
\* or of the publish; in plaintext mode with a working publish it returns
\* the message id of a published envelope.
C35_DialFailureNotFatal ==
    DialHasFailed =>
       /\ sending.pc = "publish" \/ sendResult.status # "none"
       /\ sendResult.status \in {"none", "ok", "EncryptionError", "PublishFailed"}
       /\ (~useEncryption /\ sendResult.status # "none") =>
             sendResult.status \in {"ok", "PublishFailed"}
       /\ sendResult.status = "ok" =>
             /\ published # <<>>
             /\ published[Len(published)].messageId = sendResult.messageId
             /\ verifyMessage(published[Len(published)])

\* the dial failed and the call returned the id of the published envelope
C35_Witness ==
    /\ dialResult = "dialFailed"
    /\ sendResult.status = "ok"
    /\ published # <<>>


\* C36: a validly signed message without a recipient is dropped once its
\* signature is verified: the handler ends there, no 'message' event is
\* emitted, nothing is written to a stream and messagesReceived stays.
C36_NoRecipientDropped ==
    [][\A i \in 1..Len(handlers) :
          (/\ handlers[i].pc = "verifying"
           /\ verifyMessage(handlers[i].msg)
           /\ handlers[i].msg.toAgentId = NoAddr
           /\ handlers'[i].pc # "verifying")
             => /\ handlers'[i].pc = "noRecipient"
                /\ emitted' = emitted
                /\ messagesReceived' = messagesReceived
                /\ streamLog' = streamLog]_vars

\* a message was dropped for its missing recipient while another, valid one
\* for this node was delivered
C36_Witness ==
    /\ \E i \in 1..Len(handlers) : handlers[i].pc = "noRecipient"
    /\ \E i \in 1..Len(handlers) : handlers[i].pc = "emitted"


C38_OneListenerSet ==
    /\ Len(listeners) = 1
    /\ \A s \in StreamIds :
          \A j, k \in 1..Len(streamLog[s]) :
             (/\ streamLog[s][j].type = "message"
              /\ streamLog[s][k].type = "message"
              /\ streamLog[s][j].ref = streamLog[s][k].ref) => j = k

\* two streams have made a Connect request, and the handlers are those of
\* the later one, which was written a message
C38_Witness ==
    \E s, t \in StreamIds :
       /\ s # t
       /\ ReadyCount(s) > 0
       /\ ReadyCount(t) > 0
       /\ listeners = <<t>>
       /\ MessageRefs(t) # {}


\* the reply a step gives to a unary call, if it gives one
Replied(call, code) ==
    /\ Len(apiReplies') = Len(apiReplies) + 1
    /\ apiReplies'[Len(apiReplies')].call = call
    /\ apiReplies'[Len(apiReplies')].code = code

\* C39: Stop replies with success only once stop() has returned and the
\* service has dropped its network; from then on SendMessage and ListAgents
\* are answered INTERNAL 'Network not started' and start no send, and a
\* further Stop is answered with success without a call of stop(); a Stop
\* whose stop() threw is answered INTERNAL and leaves the network in place.
C39_StopTerminal ==
    [][/\ Replied("Stop", "OK") => (stopped' /\ ~network')
       /\ \A c \in {"SendMessage", "ListAgents"} :
             (~network /\ Len(apiReplies') > Len(apiReplies)
                /\ apiReplies'[Len(apiReplies')].call = c)
                => /\ apiReplies'[Len(apiReplies')] =
                         ReplyInternal(c, "Network not started")
                   /\ UNCHANGED <<published, sending, sendCalls>>
       /\ ~network => sendCalls' = sendCalls
       /\ (~network /\ Replied("Stop", "OK")) => UNCHANGED <<stopCalls, lifeVars>>
       /\ ~network => ~network'
       /\ Replied("Stop", "INTERNAL") => (network /\ network')]_vars

\* a Stop failed and was retried with success; the call after it was refused
C39_Witness ==
    /\ Len(apiReplies) = 3
    /\ apiReplies[1] = ReplyInternal("Stop", "stop failed")
    /\ apiReplies[2] = ReplyOk("Stop")
    /\ apiReplies[3] = ReplyInternal("SendMessage", "Network not started")
    /\ stopCalls = 2


\* C40: a payload the listener cannot process ends its handler without a
\* change of the directory, the metrics, the emitted events or any stream,
\* and the node stays up; afterwards a delivered message can still be
\* verified and the listener still takes payloads.
C40_BadPayloadIsolated ==
    /\ [][\A i \in 1..Len(handlers') :
             (i > Len(handlers) /\ handlers'[i].pc \in BadKinds)
                => /\ UNCHANGED <<dirVars, lifeVars>>
                   /\ UNCHANGED <<emitted, messagesReceived, messagesSent>>
                   /\ UNCHANGED <<streamLog, streamState, activeStream, listeners>>]_vars
    /\ [](\A i \in 1..Len(handlers) :
             handlers[i].pc = "verifying" => ENABLED VerifyDone(i))
    /\ []((\E i \in 1..Len(handlers) : handlers[i].pc \in BadKinds)
             /\ ~stopped /\ Len(handlers) < MaxMsgs
          => \A m \in WireMessages(Len(handlers) + 1) : ENABLED PubsubDeliver(m))

\* a payload that could not be processed was followed by a message that was
\* delivered and written to a stream
C40_Witness ==
    /\ Len(handlers) = 2
    /\ handlers[1].pc \in BadKinds
    /\ handlers[2].pc = "emitted"
    /\ messagesReceived = 1
    /\ \E s \in StreamIds : 2 \in MessageRefs(s)

====
